---- MODULE Spec2Model ----
(***************************************************************************)
(* Polaroid Studio: the page/grid geometry, the three renderers (the live  *)
(* preview, the PDF exporter and the PNG exporter), the automatic crop and *)
(* the crop modal's drag and resize gestures.                              *)
(*                                                                         *)
(* Numbers that the program holds as JavaScript doubles are modelled as    *)
(* exact rationals <<n, d>> in lowest terms with d > 0, so that structural *)
(* equality is numeric equality.  Rounding of doubles is not modelled.     *)
(***************************************************************************)
EXTENDS Integers, Sequences, FiniteSets, TLC

VARIABLES
    settings,   \* App.tsx: the Settings value handed to the renderers
    photos,     \* App.tsx: the photo collection (a sequence of Photo records)
    preview,    \* what the workspace last rendered
    pdf,        \* one run of generatePDF: position, jsPDF document, draw calls
    png,        \* one run of generatePNG: position, canvas, downloads
    modal,      \* CropModal: its React state while the modal is open
    importing,  \* handleFileUpload: the import that is waiting for its image to decode
    captioning, \* geminiService.ts: one call of generateCaption
    isExporting \* App.tsx: the flag that disables the export button

vars == <<settings, photos, preview, pdf, png, modal, importing, captioning, isExporting>>

----------------------------------------------------------------------------
(* Exact rational arithmetic *)

Abs(n) == IF n < 0 THEN -n ELSE n

RECURSIVE Gcd(_, _)
Gcd(a, b) == IF b = 0 THEN a ELSE Gcd(b, a % b)

\* n/d in lowest terms, d # 0
Rat(n, d) ==
    LET g == Gcd(Abs(n), Abs(d))
        s == IF d < 0 THEN -1 ELSE 1
    IN  <<(s * n) \div g, (s * d) \div g>>

Num(n) == <<n, 1>>
Zero == Num(0)
One == Num(1)

RAdd(a, b) ==
    LET g == Gcd(a[2], b[2])
    IN  Rat(a[1] * (b[2] \div g) + b[1] * (a[2] \div g), (a[2] \div g) * b[2])

RNeg(a) == <<-a[1], a[2]>>
RSub(a, b) == RAdd(a, RNeg(b))

RMul(a, b) ==
    LET g1 == Gcd(Abs(a[1]), b[2])
        g2 == Gcd(Abs(b[1]), a[2])
    IN  Rat((a[1] \div g1) * (b[1] \div g2), (a[2] \div g2) * (b[2] \div g1))

\* a / b, b # 0
RDiv(a, b) == RMul(a, Rat(b[2], b[1]))

RLt(a, b) ==
    LET g == Gcd(a[2], b[2])
    IN  a[1] * (b[2] \div g) < b[1] * (a[2] \div g)

RLe(a, b) == ~RLt(b, a)
RMin(a, b) == IF RLt(b, a) THEN b ELSE a
RMax(a, b) == IF RLt(a, b) THEN b ELSE a
RAbs(a) == <<Abs(a[1]), a[2]>>

\* Math.ceil of a rational, as an integer
Ceil(a) == -((-a[1]) \div a[2])

\* Math.floor(a / b) and a % b on non-negative integers
FloorDiv(a, b) == a \div b
Mod(a, b) == a % b

----------------------------------------------------------------------------
(* types.ts *)

PAPER_SIZES ==
    [A4     |-> [widthMm |-> Num(210),       heightMm |-> Num(297)],
     Letter |-> [widthMm |-> Rat(2159, 10),  heightMm |-> Rat(2794, 10)],
     P4x6   |-> [widthMm |-> Rat(1016, 10),  heightMm |-> Rat(1524, 10)],
     Custom |-> [widthMm |-> Num(210),       heightMm |-> Num(297)]]

ASPECT_RATIOS ==
    [r1x1 |-> Num(1), r4x3 |-> Rat(4, 3), r3x4 |-> Rat(3, 4), r16x9 |-> Rat(16, 9)]

AspectRatioKeys == {"r1x1", "r4x3", "r3x4", "r16x9"}
Styles == {"polaroid", "minimal", "borderless"}

TRANSPARENT == "#ffffff00"

INITIAL_SETTINGS ==
    [paperSize           |-> "A4",
     customPaperWidth    |-> Num(210),
     customPaperHeight   |-> Num(297),
     orientation         |-> "portrait",
     rows                |-> 3,
     cols                |-> 2,
     gapMm               |-> Num(10),
     paddingHorizontalMm |-> Num(15),
     paddingVerticalMm   |-> Num(15),
     style               |-> "polaroid",
     captionSpaceMm      |-> Num(25),
     aspectRatio         |-> "r1x1",
     showCaptions        |-> TRUE,
     backgroundColor     |-> TRANSPARENT]

----------------------------------------------------------------------------
(* pdfService.ts, generatePDF: geometry *)

\* mutant: the paper dimensions used as entered, swapped for landscape
PdfDoc_AsEntered(s) ==
    LET paperWidthMm  == IF s.paperSize = "Custom" THEN s.customPaperWidth
                         ELSE PAPER_SIZES[s.paperSize].widthMm
        paperHeightMm == IF s.paperSize = "Custom" THEN s.customPaperHeight
                         ELSE PAPER_SIZES[s.paperSize].heightMm
        isPortrait == s.orientation = "portrait"
    IN  [finalDocW |-> IF isPortrait THEN paperWidthMm ELSE paperHeightMm,
         finalDocH |-> IF isPortrait THEN paperHeightMm ELSE paperWidthMm]

\* the resolved page, normalised by orientation
PdfDoc(s) ==
    LET paperWidthMm  == IF s.paperSize = "Custom" THEN s.customPaperWidth
                         ELSE PAPER_SIZES[s.paperSize].widthMm
        paperHeightMm == IF s.paperSize = "Custom" THEN s.customPaperHeight
                         ELSE PAPER_SIZES[s.paperSize].heightMm
        isPortrait == s.orientation = "portrait"
        dim1 == RMin(paperWidthMm, paperHeightMm)
        dim2 == RMax(paperWidthMm, paperHeightMm)
    IN  [finalDocW |-> IF isPortrait THEN dim1 ELSE dim2,
         finalDocH |-> IF isPortrait THEN dim2 ELSE dim1]

\* the grid cell dimensions and the page capacity
PdfGrid(s) ==
    LET Grid(d) ==
            LET availableWidth  == RSub(RSub(d.finalDocW, RMul(s.paddingHorizontalMm, Num(2))),
                                        RMul(s.gapMm, Num(s.cols - 1)))
                availableHeight == RSub(RSub(d.finalDocH, RMul(s.paddingVerticalMm, Num(2))),
                                        RMul(s.gapMm, Num(s.rows - 1)))
            IN  [cellWidth    |-> RDiv(availableWidth, Num(s.cols)),
                 cellHeight   |-> RDiv(availableHeight, Num(s.rows)),
                 itemsPerPage |-> s.rows * s.cols]
    IN  Grid(PdfDoc(s))

\* mutant: row and column derived from the row count instead of the column count
PdfCell_ByRows(s, i) ==
    LET Cell(g) ==
            LET pageIndex == FloorDiv(i, g.itemsPerPage)
                itemIndex == Mod(i, g.itemsPerPage)
                row == FloorDiv(itemIndex, s.rows)
                col == Mod(itemIndex, s.rows)
            IN  [pageIndex |-> pageIndex, itemIndex |-> itemIndex, row |-> row, col |-> col,
                 x |-> RAdd(s.paddingHorizontalMm, RMul(Num(col), RAdd(g.cellWidth, s.gapMm))),
                 y |-> RAdd(s.paddingVerticalMm, RMul(Num(row), RAdd(g.cellHeight, s.gapMm))),
                 w |-> g.cellWidth, h |-> g.cellHeight]
    IN  Cell(PdfGrid(s))

\* page, row, column and cell origin of the photo with flat index i (0-based)
PdfCell(s, i) ==
    LET Cell(g) ==
            LET pageIndex == FloorDiv(i, g.itemsPerPage)
                itemIndex == Mod(i, g.itemsPerPage)
                row == FloorDiv(itemIndex, s.cols)
                col == Mod(itemIndex, s.cols)
            IN  [pageIndex |-> pageIndex, itemIndex |-> itemIndex, row |-> row, col |-> col,
                 x |-> RAdd(s.paddingHorizontalMm, RMul(Num(col), RAdd(g.cellWidth, s.gapMm))),
                 y |-> RAdd(s.paddingVerticalMm, RMul(Num(row), RAdd(g.cellHeight, s.gapMm))),
                 w |-> g.cellWidth, h |-> g.cellHeight]
    IN  Cell(PdfGrid(s))

PdfBottomPadding_Always25(s) == Num(25)

\* captionSpaceMm || 25 (an unset caption space is the falsy value 0)
PdfBottomPadding(s) == IF s.captionSpaceMm = Zero THEN Num(25) ELSE s.captionSpaceMm

\* the image area inside the cell at (x, y), by style (mm, page coordinates)
PdfImageArea(s, x, y, cellWidth, cellHeight) ==
    IF s.style = "polaroid" THEN
        LET innerPadding == RMul(cellWidth, Rat(5, 100))
            bottomPadding == PdfBottomPadding(s)
        IN  [imgX |-> RAdd(x, innerPadding),
             imgY |-> RAdd(y, innerPadding),
             imgW |-> RSub(cellWidth, RMul(innerPadding, Num(2))),
             imgH |-> RSub(cellHeight, RAdd(innerPadding, bottomPadding)),
             bottomPadding |-> bottomPadding]
    ELSE IF s.style = "minimal" THEN
        LET innerPadding == Num(3)
        IN  [imgX |-> RAdd(x, innerPadding),
             imgY |-> RAdd(y, innerPadding),
             imgW |-> RSub(cellWidth, RMul(innerPadding, Num(2))),
             imgH |-> RSub(cellHeight, RMul(innerPadding, Num(2))),
             bottomPadding |-> Zero]
    ELSE [imgX |-> x, imgY |-> y, imgW |-> cellWidth, imgH |-> cellHeight,
          bottomPadding |-> Zero]

\* the aspect-ratio box fitted into the image area
PdfFit(a, ratioValue) ==
    IF RLt(ratioValue, RDiv(a.imgW, a.imgH)) THEN
        LET finalImgH == a.imgH
            finalImgW == RMul(a.imgH, ratioValue)
        IN  [x |-> RAdd(a.imgX, RDiv(RSub(a.imgW, finalImgW), Num(2))),
             y |-> a.imgY, w |-> finalImgW, h |-> finalImgH]
    ELSE
        LET finalImgW == a.imgW
            finalImgH == RDiv(a.imgW, ratioValue)
        IN  [x |-> a.imgX,
             y |-> RAdd(a.imgY, RDiv(RSub(a.imgH, finalImgH), Num(2))),
             w |-> finalImgW, h |-> finalImgH]

\* the final image rectangle of a cell (mm, page coordinates)
PdfImage(s, c) ==
    PdfFit(PdfImageArea(s, c.x, c.y, c.w, c.h), ASPECT_RATIOS[s.aspectRatio])

----------------------------------------------------------------------------
(* pdfService.ts, generatePNG: geometry (pixels = mm * SCALE) *)

SCALE == 8

PngDoc(s) ==
    LET paperWidthMm  == IF s.paperSize = "Custom" THEN s.customPaperWidth
                         ELSE PAPER_SIZES[s.paperSize].widthMm
        paperHeightMm == IF s.paperSize = "Custom" THEN s.customPaperHeight
                         ELSE PAPER_SIZES[s.paperSize].heightMm
        isPortrait == s.orientation = "portrait"
        dim1 == RMin(paperWidthMm, paperHeightMm)
        dim2 == RMax(paperWidthMm, paperHeightMm)
        finalDocW == IF isPortrait THEN dim1 ELSE dim2
        finalDocH == IF isPortrait THEN dim2 ELSE dim1
    IN  [finalDocW |-> finalDocW,
         finalDocH |-> finalDocH,
         widthPx   |-> Ceil(RMul(finalDocW, Num(SCALE))),
         heightPx  |-> Ceil(RMul(finalDocH, Num(SCALE)))]

PngGrid(s) ==
    LET Grid(d) ==
            LET availableWidth  == RSub(RSub(d.finalDocW, RMul(s.paddingHorizontalMm, Num(2))),
                                        RMul(s.gapMm, Num(s.cols - 1)))
                availableHeight == RSub(RSub(d.finalDocH, RMul(s.paddingVerticalMm, Num(2))),
                                        RMul(s.gapMm, Num(s.rows - 1)))
            IN  [cellWidth    |-> RDiv(availableWidth, Num(s.cols)),
                 cellHeight   |-> RDiv(availableHeight, Num(s.rows)),
                 itemsPerPage |-> s.rows * s.cols]
    IN  Grid(PngDoc(s))

\* mutant: Math.ceil(photos.length / itemsPerPage), no page for an empty collection
PngTotalPages_NoMinimum(s, n) ==
    Ceil(Rat(n, s.rows * s.cols))

\* Math.ceil(Math.max(photos.length, 1) / itemsPerPage)
PngTotalPages(s, n) ==
    Ceil(Rat(IF n > 1 THEN n ELSE 1, s.rows * s.cols))

\* mutant: the vertical padding used for the horizontal origin
PngCell_VerticalPaddingInX(s, i) ==
    LET Cell(g) ==
            LET itemIndex == Mod(i, g.itemsPerPage)
                row == FloorDiv(itemIndex, s.cols)
                col == Mod(itemIndex, s.cols)
                xMm == RAdd(s.paddingVerticalMm, RMul(Num(col), RAdd(g.cellWidth, s.gapMm)))
                yMm == RAdd(s.paddingVerticalMm, RMul(Num(row), RAdd(g.cellHeight, s.gapMm)))
            IN  [itemIndex |-> itemIndex, row |-> row, col |-> col,
                 x |-> RMul(xMm, Num(SCALE)),
                 y |-> RMul(yMm, Num(SCALE)),
                 w |-> RMul(g.cellWidth, Num(SCALE)),
                 h |-> RMul(g.cellHeight, Num(SCALE))]
    IN  Cell(PngGrid(s))

\* row, column and cell rectangle (pixels) of the photo with flat index i
PngCell(s, i) ==
    LET Cell(g) ==
            LET itemIndex == Mod(i, g.itemsPerPage)
                row == FloorDiv(itemIndex, s.cols)
                col == Mod(itemIndex, s.cols)
                xMm == RAdd(s.paddingHorizontalMm, RMul(Num(col), RAdd(g.cellWidth, s.gapMm)))
                yMm == RAdd(s.paddingVerticalMm, RMul(Num(row), RAdd(g.cellHeight, s.gapMm)))
            IN  [itemIndex |-> itemIndex, row |-> row, col |-> col,
                 x |-> RMul(xMm, Num(SCALE)),
                 y |-> RMul(yMm, Num(SCALE)),
                 w |-> RMul(g.cellWidth, Num(SCALE)),
                 h |-> RMul(g.cellHeight, Num(SCALE))]
    IN  Cell(PngGrid(s))

PngBottomPaddingMm(s) == IF s.captionSpaceMm = Zero THEN Num(25) ELSE s.captionSpaceMm

\* the image area inside the cell rectangle c (pixels); cellWidth is in mm
PngImageArea(s, c, cellWidth) ==
        IF s.style = "polaroid" THEN
            LET innerPaddingMm == RMul(cellWidth, Rat(5, 100))
                bottomPaddingMm == PngBottomPaddingMm(s)
            IN  [imgX |-> RAdd(c.x, RMul(innerPaddingMm, Num(SCALE))),
                 imgY |-> RAdd(c.y, RMul(innerPaddingMm, Num(SCALE))),
                 imgW |-> RSub(c.w, RMul(RMul(innerPaddingMm, Num(2)), Num(SCALE))),
                 imgH |-> RSub(c.h, RMul(RAdd(innerPaddingMm, bottomPaddingMm), Num(SCALE))),
                 bottomPaddingMm |-> bottomPaddingMm]
        ELSE IF s.style = "minimal" THEN
            LET innerPaddingMm == Num(3)
            IN  [imgX |-> RAdd(c.x, RMul(innerPaddingMm, Num(SCALE))),
                 imgY |-> RAdd(c.y, RMul(innerPaddingMm, Num(SCALE))),
                 imgW |-> RSub(c.w, RMul(RMul(innerPaddingMm, Num(2)), Num(SCALE))),
                 imgH |-> RSub(c.h, RMul(RMul(innerPaddingMm, Num(2)), Num(SCALE))),
                 bottomPaddingMm |-> Zero]
        ELSE [imgX |-> c.x, imgY |-> c.y, imgW |-> c.w, imgH |-> c.h,
              bottomPaddingMm |-> Zero]

PngFit(a, ratio) ==
    IF RLt(ratio, RDiv(a.imgW, a.imgH)) THEN
        LET finalImgH == a.imgH
            finalImgW == RMul(a.imgH, ratio)
        IN  [x |-> RAdd(a.imgX, RDiv(RSub(a.imgW, finalImgW), Num(2))),
             y |-> a.imgY, w |-> finalImgW, h |-> finalImgH]
    ELSE
        LET finalImgW == a.imgW
            finalImgH == RDiv(a.imgW, ratio)
        IN  [x |-> a.imgX,
             y |-> RAdd(a.imgY, RDiv(RSub(a.imgH, finalImgH), Num(2))),
             w |-> finalImgW, h |-> finalImgH]

\* the final image rectangle of a cell (pixels, canvas coordinates)
PngImage(s, c) ==
    PngFit(PngImageArea(s, c, PngGrid(s).cellWidth), ASPECT_RATIOS[s.aspectRatio])

----------------------------------------------------------------------------
(* GridPreview.tsx: geometry (mm; the DOM gets mm * SCREEN_SCALE) *)

SCREEN_SCALE == 3

PreviewDoc(s) ==
    LET paperWidthMm  == IF s.paperSize = "Custom" THEN s.customPaperWidth
                         ELSE PAPER_SIZES[s.paperSize].widthMm
        paperHeightMm == IF s.paperSize = "Custom" THEN s.customPaperHeight
                         ELSE PAPER_SIZES[s.paperSize].heightMm
        isPortrait == s.orientation = "portrait"
        dim1 == RMin(paperWidthMm, paperHeightMm)
        dim2 == RMax(paperWidthMm, paperHeightMm)
    IN  [finalDocW |-> IF isPortrait THEN dim1 ELSE dim2,
         finalDocH |-> IF isPortrait THEN dim2 ELSE dim1]

PreviewGrid(s) ==
    LET Grid(d) ==
            LET availableWidth  == RSub(RSub(d.finalDocW, RMul(s.paddingHorizontalMm, Num(2))),
                                        RMul(s.gapMm, Num(s.cols - 1)))
                availableHeight == RSub(RSub(d.finalDocH, RMul(s.paddingVerticalMm, Num(2))),
                                        RMul(s.gapMm, Num(s.rows - 1)))
            IN  [cellWidthMm  |-> RDiv(availableWidth, Num(s.cols)),
                 cellHeightMm |-> RDiv(availableHeight, Num(s.rows)),
                 itemsPerPage |-> s.rows * s.cols]
    IN  Grid(PreviewDoc(s))

\* Math.ceil(Math.max(photos.length, 1) / itemsPerPage)
PreviewTotalPages(s, n) ==
    Ceil(Rat(IF n > 1 THEN n ELSE 1, s.rows * s.cols))

\* the cell with index idx (0-based) of page pageIdx
PreviewCell(s, pageIdx, idx) ==
    LET Cell(g) ==
            LET row == FloorDiv(idx, s.cols)
                col == Mod(idx, s.cols)
            IN  [pageIdx |-> pageIdx, idx |-> idx,
                 photoIdx |-> pageIdx * g.itemsPerPage + idx,
                 row |-> row, col |-> col,
                 xMm |-> RAdd(s.paddingHorizontalMm, RMul(Num(col), RAdd(g.cellWidthMm, s.gapMm))),
                 yMm |-> RAdd(s.paddingVerticalMm, RMul(Num(row), RAdd(g.cellHeightMm, s.gapMm))),
                 widthMm |-> g.cellWidthMm, heightMm |-> g.cellHeightMm]
    IN  Cell(PreviewGrid(s))

\* PhotoCell: the image area inside a cell of widthMm x heightMm (mm, cell coordinates)
PhotoCellArea(s, widthMm, heightMm) ==
    IF s.style = "polaroid" THEN
        LET innerPadding == RMul(widthMm, Rat(6, 100))
            bottomPadding == RMax(Num(20), RMul(heightMm, Rat(20, 100)))
        IN  [imgX |-> innerPadding,
             imgY |-> innerPadding,
             imgW |-> RSub(widthMm, RMul(innerPadding, Num(2))),
             imgH |-> RSub(heightMm, RAdd(innerPadding, bottomPadding))]
    ELSE IF s.style = "minimal" THEN
        LET innerPadding == Num(3)
        IN  [imgX |-> innerPadding,
             imgY |-> innerPadding,
             imgW |-> RSub(widthMm, RMul(innerPadding, Num(2))),
             imgH |-> RSub(heightMm, RMul(innerPadding, Num(2)))]
    ELSE [imgX |-> Zero, imgY |-> Zero, imgW |-> widthMm, imgH |-> heightMm]

PhotoCellFit(a, ratioValue) ==
    IF RLt(ratioValue, RDiv(a.imgW, a.imgH)) THEN
        LET finalImgH == a.imgH
            finalImgW == RMul(a.imgH, ratioValue)
        IN  [x |-> RAdd(a.imgX, RDiv(RSub(a.imgW, finalImgW), Num(2))),
             y |-> a.imgY, w |-> finalImgW, h |-> finalImgH]
    ELSE
        LET finalImgW == a.imgW
            finalImgH == RDiv(a.imgW, ratioValue)
        IN  [x |-> a.imgX,
             y |-> RAdd(a.imgY, RDiv(RSub(a.imgH, finalImgH), Num(2))),
             w |-> finalImgW, h |-> finalImgH]

\* PhotoCell: the final image rectangle (mm, relative to the cell)
PhotoCell(s, widthMm, heightMm) ==
    PhotoCellFit(PhotoCellArea(s, widthMm, heightMm), ASPECT_RATIOS[s.aspectRatio])


----------------------------------------------------------------------------
(* App.tsx / GridPreview.tsx: rendering the workspace *)

\* one grid cell as GridPreview renders it: the empty placeholder, or a PhotoCell
PreviewRenderCell(s, n, pageIdx, idx) ==
    LET Cell(c) ==
            IF c.photoIdx >= n
            THEN [c EXCEPT !.photoIdx = -1] @@ [img |-> "empty"]
            ELSE c @@ [img |-> PhotoCell(s, c.widthMm, c.heightMm)]
    IN  Cell(PreviewCell(s, pageIdx, idx))

\* GridPreview: the pages and, per page, every grid cell in index order
GridPreview(ph, s) ==
    LET Pages(itemsPerPage, totalPages, d) ==
            [rendered |-> TRUE,
             mounted |-> TRUE,
             crashed |-> FALSE,
             pages |-> totalPages,
             widthPx  |-> RMul(d.finalDocW, Num(SCREEN_SCALE)),
             heightPx |-> RMul(d.finalDocH, Num(SCREEN_SCALE)),
             cells |-> [k \in 1..(totalPages * itemsPerPage) |->
                          PreviewRenderCell(s, Len(ph), FloorDiv(k - 1, itemsPerPage),
                                            Mod(k - 1, itemsPerPage))]]
    IN  Pages(s.rows * s.cols, PreviewTotalPages(s, Len(ph)), PreviewDoc(s))

\* the workspace with no photos: the "Comece sua colecao" placeholder, no GridPreview
EmptyState ==
    [rendered |-> TRUE, mounted |-> FALSE, crashed |-> FALSE, pages |-> 0,
     widthPx |-> Zero, heightPx |-> Zero, cells |-> <<>>]

\* PAPER_SIZES[settings.paperSize] is defined, or the paper is the custom one
KnownPaper(s) == s.paperSize = "Custom" \/ s.paperSize \in DOMAIN PAPER_SIZES

\* GridPreview threw while rendering (paper.widthMm of undefined): with no error
\* boundary React unmounts the whole app
Crashed == [EmptyState EXCEPT !.crashed = TRUE]

\* before the first render
NotRendered == [EmptyState EXCEPT !.rendered = FALSE]

\* App's render of the workspace
Workspace(ph, s) ==
    IF Len(ph) = 0 THEN EmptyState
    ELSE IF ~KnownPaper(s) THEN Crashed
    ELSE GridPreview(ph, s)

----------------------------------------------------------------------------
(* State machine: rendering and the two exporters *)

\* an exporter that is not running: pc is its position, i and p its loop counters,
\* doc the resolved page, pages the pages (PDF) or canvases (PNG) created so far,
\* placed the layout computed per photo, ops the draw and output calls issued
ExportIdle ==
    [pc |-> "idle", i |-> 0, p |-> 0, doc |-> [finalDocW |-> Zero, finalDocH |-> Zero],
     pages |-> 0, placed |-> <<>>, ops |-> <<>>]

Exporting(e) == e.pc \notin {"idle", "done", "failed"}

\* the exporter itself is running: the timer callback has called it and it has
\* neither returned nor thrown
Generating(e) == Exporting(e) /\ e.pc # "scheduled"

\* the first render of the workspace, before any user event
Render ==
    /\ ~preview.rendered
    /\ preview' = Workspace(photos, settings)
    /\ UNCHANGED <<settings, photos, pdf, png, modal, importing, captioning, isExporting>>

PdfIsTransparent_Never(s) == FALSE

\* PDF: settings.backgroundColor === '#ffffff00' || === 'transparent'
PdfIsTransparent(s) == s.backgroundColor \in {TRANSPARENT, "transparent"}

IsWhite(s) == s.backgroundColor \in {"#ffffff", "#fff"}

\* the draw calls for the card background of the cell c
PdfBackgroundOps(s, c, page) ==
    IF ~PdfIsTransparent(s) /\ s.style # "borderless"
    THEN <<[op |-> "rectF", page |-> page, rect |-> [x |-> c.x, y |-> c.y, w |-> c.w, h |-> c.h]]>>
         \o (IF IsWhite(s)
             THEN <<[op |-> "rectS", page |-> page,
                     rect |-> [x |-> c.x, y |-> c.y, w |-> c.w, h |-> c.h]]>>
             ELSE <<>>)
    ELSE <<>>

\* mutant: a page added before the first photo too
PdfNeedsPage_EveryFirstItem(c) == c.itemIndex = 0

\* if (itemIndex === 0 && pageIndex > 0) doc.addPage()
PdfNeedsPage(c) == c.itemIndex = 0 /\ c.pageIndex > 0

\* the export button (enabled unless isExporting): handleExport sets isExporting and
\* schedules the export with setTimeout
handleExport ==
    /\ preview.rendered /\ ~preview.crashed
    /\ ~isExporting
    /\ isExporting' = TRUE
    /\ pdf' = [ExportIdle EXCEPT !.pc = "scheduled"]
    /\ UNCHANGED <<settings, photos, preview, png, modal, importing, captioning>>

PdfStart_DefaultsToA4 ==
    /\ pdf.pc = "scheduled"
    /\ pdf' = [ExportIdle EXCEPT
                 !.pc = "loop", !.pages = 1,
                 !.doc = PdfDoc(IF KnownPaper(settings) THEN settings
                                ELSE [settings EXCEPT !.paperSize = "A4"])]
    /\ UNCHANGED <<settings, photos, preview, png, modal, importing, captioning, isExporting>>

\* the timer of handleExport fires: generatePDF up to the loop: new jsPDF (one page);
\* with an unknown paper key paper.widthMm throws, handleExport catches the rejection
\* and its finally clears isExporting
PdfStart ==
    /\ pdf.pc = "scheduled"
    /\ pdf' = IF KnownPaper(settings)
              THEN [ExportIdle EXCEPT !.pc = "loop", !.pages = 1, !.doc = PdfDoc(settings)]
              ELSE [ExportIdle EXCEPT !.pc = "failed"]
    /\ isExporting' = (IF KnownPaper(settings) THEN isExporting ELSE FALSE)
    /\ UNCHANGED <<settings, photos, preview, png, modal, importing, captioning>>

PdfLayout_NoAwait ==
    /\ pdf.pc = "loop"
    /\ pdf.i < Len(photos)
    /\ \E c \in {PdfCell(settings, pdf.i)} :
          pdf' = [pdf EXCEPT
                    !.i = @ + 1,
                    !.placed = Append(@, [i |-> pdf.i, page |-> pdf.pages - 1,
                                          row |-> c.row, col |-> c.col,
                                          cell |-> [x |-> c.x, y |-> c.y, w |-> c.w, h |-> c.h],
                                          area |-> PdfImageArea(settings, c.x, c.y, c.w, c.h),
                                          img |-> PdfImage(settings, c)])]
    /\ UNCHANGED <<settings, photos, preview, png, modal, importing, captioning, isExporting>>

\* generatePDF, loop body up to the await of the image load
PdfLayout ==
    /\ pdf.pc = "loop"
    /\ pdf.i < Len(photos)
    /\ \E c \in {PdfCell(settings, pdf.i)} :
       LET newPage == PdfNeedsPage(c)
           pages == IF newPage THEN pdf.pages + 1 ELSE pdf.pages
           img == PdfImage(settings, c)
       IN  pdf' = [pdf EXCEPT
                    !.pc = "await",
                    !.pages = pages,
                    !.ops = (IF newPage THEN Append(@, [op |-> "addPage"]) ELSE @)
                            \o PdfBackgroundOps(settings, c, pages - 1),
                    !.placed = Append(@, [i |-> pdf.i, page |-> pages - 1,
                                          row |-> c.row, col |-> c.col,
                                          cell |-> [x |-> c.x, y |-> c.y, w |-> c.w, h |-> c.h],
                                          area |-> PdfImageArea(settings, c.x, c.y, c.w, c.h),
                                          img |-> img])]
    /\ UNCHANGED <<settings, photos, preview, png, modal, importing, captioning, isExporting>>

ImgObjWidth_OriginalWidth(photo) == photo.originalWidth

\* imgObj.width once the load promise has resolved: 0 when the image failed to load
ImgObjWidth(photo) == IF photo.decodes THEN photo.originalWidth ELSE 0

\* the source rectangle sampled from the (filtered) image
SourceRect(photo) ==
    [sx |-> RMul(photo.crop.x, Num(photo.originalWidth)),
     sy |-> RMul(photo.crop.y, Num(photo.originalHeight)),
     sWidth  |-> RMul(photo.crop.width, Num(photo.originalWidth)),
     sHeight |-> RMul(photo.crop.height, Num(photo.originalHeight))]

\* generatePDF, loop body after the await: image, caption, next photo
PdfDraw ==
    /\ pdf.pc = "await"
    /\ \E bottomPadding \in {PdfBottomPadding(settings)} :
       LET photo == photos[pdf.i + 1]
           pl == pdf.placed[Len(pdf.placed)]
           c == pl.cell
           image == IF ImgObjWidth(photo) > 0
                    THEN <<[op |-> "addImage", page |-> pl.page, photo |-> photo.id,
                            src |-> SourceRect(photo), rect |-> pl.img]>>
                    ELSE <<>>
           caption == IF settings.showCaptions /\ photo.caption # ""
                         /\ settings.style = "polaroid"
                      THEN <<[op |-> "text", page |-> pl.page, photo |-> photo.id,
                              x |-> RAdd(c.x, RDiv(c.w, Num(2))),
                              y |-> RAdd(RAdd(RSub(RAdd(c.y, c.h), bottomPadding),
                                              RDiv(bottomPadding, Num(2))), Num(1)),
                              maxWidth |-> RSub(c.w, Num(10))]>>
                      ELSE <<>>
       IN  pdf' = [pdf EXCEPT !.pc = "loop", !.i = @ + 1, !.ops = @ \o image \o caption]
    /\ UNCHANGED <<settings, photos, preview, png, modal, importing, captioning, isExporting>>

PdfSave_NoFinally ==
    /\ pdf.pc = "loop"
    /\ pdf.i >= Len(photos)
    /\ pdf' = [pdf EXCEPT !.pc = "done", !.ops = Append(@, [op |-> "save", pages |-> pdf.pages])]
    /\ UNCHANGED <<settings, photos, preview, png, modal, importing, captioning, isExporting>>

\* generatePDF: doc.save after the last photo; handleExport's finally clears isExporting
PdfSave ==
    /\ pdf.pc = "loop"
    /\ pdf.i >= Len(photos)
    /\ pdf' = [pdf EXCEPT !.pc = "done", !.ops = Append(@, [op |-> "save", pages |-> pdf.pages])]
    /\ isExporting' = FALSE
    /\ UNCHANGED <<settings, photos, preview, png, modal, importing, captioning>>

\* handleExportPNG sets isExporting and schedules the export with setTimeout
handleExportPNG ==
    /\ preview.rendered /\ ~preview.crashed
    /\ ~isExporting
    /\ isExporting' = TRUE
    /\ png' = [ExportIdle EXCEPT !.pc = "scheduled"]
    /\ UNCHANGED <<settings, photos, preview, pdf, modal, importing, captioning>>

\* the timer of handleExportPNG fires: generatePNG up to the page loop
PngStart ==
    /\ png.pc = "scheduled"
    /\ png' = IF KnownPaper(settings)
              THEN [ExportIdle EXCEPT !.pc = "page", !.doc = PngDoc(settings)]
              ELSE [ExportIdle EXCEPT !.pc = "failed"]
    /\ isExporting' = (IF KnownPaper(settings) THEN isExporting ELSE FALSE)
    /\ UNCHANGED <<settings, photos, preview, pdf, modal, importing, captioning>>

\* generatePNG: a new canvas for page p and its background fill
PngPageBegin ==
    /\ png.pc = "page"
    /\ png.p < PngTotalPages(settings, Len(photos))
    /\ LET d == png.doc
           fill == IF settings.backgroundColor # TRANSPARENT
                   THEN <<[op |-> "fillRect", page |-> png.p,
                           rect |-> [x |-> Zero, y |-> Zero,
                                     w |-> Num(d.widthPx), h |-> Num(d.heightPx)]]>>
                   ELSE <<>>
       IN  png' = [png EXCEPT !.pc = "items",
                              !.i = png.p * (settings.rows * settings.cols),
                              !.pages = @ + 1,
                              !.ops = @ \o fill]
    /\ UNCHANGED <<settings, photos, preview, pdf, modal, importing, captioning, isExporting>>

PngEndIdx_OneShort(s, p, n) ==
    LET e == p * (s.rows * s.cols) + s.rows * s.cols
    IN  (IF e < n THEN e ELSE n) - 1

\* startIdx + itemsPerPage capped by photos.length
PngEndIdx(s, p, n) ==
    LET e == p * (s.rows * s.cols) + s.rows * s.cols
    IN  IF e < n THEN e ELSE n

PngBackgroundOps(s, c, page) ==
    IF s.style # "borderless" /\ s.backgroundColor # TRANSPARENT
    THEN <<[op |-> "fillRect", page |-> page, rect |-> [x |-> c.x, y |-> c.y, w |-> c.w, h |-> c.h]]>>
         \o (IF IsWhite(s)
             THEN <<[op |-> "strokeRect", page |-> page,
                     rect |-> [x |-> c.x, y |-> c.y, w |-> c.w, h |-> c.h]]>>
             ELSE <<>>)
    ELSE <<>>

\* generatePNG, item loop body up to the await of the image load
PngLayout ==
    /\ png.pc = "items"
    /\ png.i < PngEndIdx(settings, png.p, Len(photos))
    /\ \E c \in {PngCell(settings, png.i)} :
       LET img == PngImage(settings, c)
       IN  png' = [png EXCEPT
                    !.pc = "await",
                    !.ops = @ \o PngBackgroundOps(settings, c, png.p),
                    !.placed = Append(@, [i |-> png.i, page |-> png.p,
                                          row |-> c.row, col |-> c.col,
                                          cell |-> [x |-> c.x, y |-> c.y, w |-> c.w, h |-> c.h],
                                          area |-> PngImageArea(settings, c,
                                                                PngGrid(settings).cellWidth),
                                          img |-> img])]
    /\ UNCHANGED <<settings, photos, preview, pdf, modal, importing, captioning, isExporting>>

\* generatePNG, item loop body after the await: clipped image, caption, next photo
PngDraw ==
    /\ png.pc = "await"
    /\ \E bottomPx \in {RMul(PngBottomPaddingMm(settings), Num(SCALE))} :
       LET photo == photos[png.i + 1]
           pl == png.placed[Len(png.placed)]
           c == pl.cell
           image == IF ImgObjWidth(photo) > 0
                    THEN <<[op |-> "drawImage", page |-> pl.page, photo |-> photo.id,
                            src |-> SourceRect(photo), rect |-> pl.img, clip |-> pl.img]>>
                    ELSE <<>>
           caption == IF settings.showCaptions /\ photo.caption # ""
                         /\ settings.style = "polaroid"
                      THEN <<[op |-> "fillText", page |-> pl.page, photo |-> photo.id,
                              x |-> RAdd(c.x, RDiv(c.w, Num(2))),
                              y |-> RAdd(RSub(RAdd(c.y, c.h), bottomPx),
                                         RDiv(bottomPx, Num(2))),
                              maxWidth |-> RSub(c.w, Num(20))]>>
                      ELSE <<>>
       IN  png' = [png EXCEPT !.pc = "items", !.i = @ + 1, !.ops = @ \o image \o caption]
    /\ UNCHANGED <<settings, photos, preview, pdf, modal, importing, captioning, isExporting>>

\* generatePNG: the page's download (polaroid-page-<p+1>.png), then the next page
PngDownload ==
    /\ png.pc = "items"
    /\ png.i >= PngEndIdx(settings, png.p, Len(photos))
    /\ png' = [png EXCEPT !.pc = "page", !.p = @ + 1,
                          !.ops = Append(@, [op |-> "download", page |-> png.p,
                                             name |-> png.p + 1])]
    /\ UNCHANGED <<settings, photos, preview, pdf, modal, importing, captioning, isExporting>>

\* generatePNG returns after the last page; handleExportPNG's finally clears isExporting
PngFinish ==
    /\ png.pc = "page"
    /\ png.p >= PngTotalPages(settings, Len(photos))
    /\ png' = [png EXCEPT !.pc = "done"]
    /\ isExporting' = FALSE
    /\ UNCHANGED <<settings, photos, preview, pdf, modal, importing, captioning>>

----------------------------------------------------------------------------
(* Inputs of the rendering/export specification *)

MaxRows == 3
MaxCols == 2
MaxPhotos == 7
MaxFailing == 3

FullCrop == [x |-> Zero, y |-> Zero, width |-> One, height |-> One]

DEFAULT_ADJUSTMENTS == [brightness |-> 100, contrast |-> 100, saturation |-> 100]

\* cropPhotoId = null: no CropModal is mounted; gestures counts the edits of the run
\* (mouse-downs and changes of an adjustment), which MaxGestures bounds
ModalClosed ==
    [open |-> FALSE, photoId |-> 0, imageLoaded |-> FALSE, crop |-> FullCrop,
     adjustments |-> DEFAULT_ADJUSTMENTS,
     isDragging |-> FALSE, isResizing |-> FALSE,
     dragStart |-> [x |-> 0, y |-> 0], startCrop |-> FullCrop,
     gestures |-> 0]

\* no file import is in flight
NoImport == [pending |-> FALSE, targetRatio |-> One, imgSize |-> <<0, 0>>]

\* generateCaption has not been called; texts are sequences of characters
NoCaptionCall ==
    [pc |-> "idle", apiKey |-> "", base64Image |-> "", outcome |-> "none",
     text |-> <<>>, result |-> <<>>]

\* a decoded photo as handleFileUpload's fallback creates it
PlainPhoto(i) ==
    [id |-> i, decodes |-> TRUE, caption |-> "", crop |-> FullCrop,
     adjustments |-> DEFAULT_ADJUSTMENTS,
     originalWidth |-> 100, originalHeight |-> 100]

Papers ==
    {[paperSize |-> k, w |-> Num(210), h |-> Num(297)] : k \in {"A4", "Letter", "P4x6"}}
    \cup {[paperSize |-> "Custom", w |-> Num(d[1]), h |-> Num(d[2])] :
            d \in {<<100, 150>>, <<150, 100>>, <<120, 120>>}}

Spacings ==
    {[gap |-> Num(10), padH |-> Num(15), padV |-> Num(15)],
     [gap |-> Num(0),  padH |-> Num(10), padV |-> Num(20)]}

\* geometry: every paper, orientation, grid and spacing, one full page of photos
InitGeometry ==
    /\ \E pa \in Papers, o \in {"portrait", "landscape"}, r \in 1..MaxRows, c \in 1..MaxCols,
          sp \in Spacings :
          /\ settings = [INITIAL_SETTINGS EXCEPT
                           !.paperSize = pa.paperSize,
                           !.customPaperWidth = pa.w,
                           !.customPaperHeight = pa.h,
                           !.orientation = o,
                           !.rows = r, !.cols = c,
                           !.gapMm = sp.gap,
                           !.paddingHorizontalMm = sp.padH,
                           !.paddingVerticalMm = sp.padV]
          /\ photos = [i \in 1..(r * c) |-> PlainPhoto(i)]

\* styles: every style and aspect ratio on A4 and 4x6 in both orientations, every grid
InitStyles ==
    /\ \E ps \in {"A4", "P4x6"}, o \in {"portrait", "landscape"}, r \in 1..MaxRows,
          c \in 1..MaxCols, st \in Styles, ar \in AspectRatioKeys :
          /\ settings = [INITIAL_SETTINGS EXCEPT
                           !.paperSize = ps,
                           !.orientation = o,
                           !.rows = r, !.cols = c,
                           !.style = st,
                           !.aspectRatio = ar]
          /\ photos = [i \in 1..(r * c) |-> PlainPhoto(i)]

\* pagination: the initial settings with every grid and every photo count
InitPages ==
    /\ \E r \in 1..MaxRows, c \in 1..MaxCols, n \in 0..MaxPhotos :
          /\ settings = [INITIAL_SETTINGS EXCEPT !.rows = r, !.cols = c]
          /\ photos = [i \in 1..n |-> PlainPhoto(i)]

\* the colours of the card background: the transparent sentinel, white, a colour
Backgrounds == {TRANSPARENT, "#ffffff", "#f0e0d0"}

\* photos: up to MaxFailing captioned photos of which any may fail to load, on pages of
\* two cells, in every style and background, captions shown or hidden
InitPhotos ==
    /\ \E st \in Styles, bg \in Backgrounds, sc \in BOOLEAN :
          settings = [INITIAL_SETTINGS EXCEPT !.rows = 1, !.cols = 2, !.style = st,
                                              !.backgroundColor = bg, !.showCaptions = sc]
    /\ \E n \in 1..MaxFailing : \E ok \in [1..n -> BOOLEAN] :
          photos = [i \in 1..n |->
                      [PlainPhoto(i) EXCEPT !.decodes = ok[i], !.caption = "cap"]]

\* settings restored from local storage whose paper key is not in PAPER_SIZES
InitUnknownPaper ==
    /\ \E k \in {"A3", "Legal"}, o \in {"portrait", "landscape"} :
          settings = [INITIAL_SETTINGS EXCEPT !.paperSize = k, !.orientation = o]
    /\ \E n \in 0..1 : photos = [i \in 1..n |-> PlainPhoto(i)]

\* the widest padding of the sidebar's slider (60 mm) on the narrowest paper
InitWidePadding ==
    /\ \E o \in {"portrait", "landscape"}, bg \in Backgrounds, c \in 1..MaxCols :
          settings = [INITIAL_SETTINGS EXCEPT !.paperSize = "P4x6", !.orientation = o,
                                              !.cols = c,
                                              !.paddingHorizontalMm = Num(60),
                                              !.backgroundColor = bg]
    /\ photos = <<PlainPhoto(1), PlainPhoto(2)>>

\* the caption space: unset (restored settings without the field), the slider's ends
\* and an inner value, in every style and for both widths of a cell
InitCaptionSpace ==
    /\ \E st \in Styles, cs \in {0, 10, 40, 60}, c \in 1..MaxCols :
          settings = [INITIAL_SETTINGS EXCEPT !.rows = 1, !.cols = c, !.style = st,
                                              !.captionSpaceMm = Num(cs)]
    /\ photos = <<PlainPhoto(1), PlainPhoto(2)>>

Init ==
    /\ \/ InitGeometry \/ InitStyles \/ InitPages \/ InitPhotos
       \/ InitUnknownPaper \/ InitWidePadding \/ InitCaptionSpace
    /\ preview = NotRendered
    /\ pdf = ExportIdle
    /\ png = ExportIdle
    /\ modal = ModalClosed
    /\ importing = NoImport
    /\ captioning = NoCaptionCall
    /\ isExporting = FALSE

Next ==
    \/ Render
    \/ handleExport \/ PdfStart \/ PdfLayout \/ PdfDraw \/ PdfSave
    \/ handleExportPNG \/ PngStart \/ PngPageBegin \/ PngLayout \/ PngDraw \/ PngDownload \/ PngFinish

Spec == Init /\ [][Next]_vars

\* exports of up to MaxFailing photos of which any may fail to load, on pages of two
\* cells, and exports of an empty collection under an unknown paper key
InitExport ==
    /\ \/ /\ settings = [INITIAL_SETTINGS EXCEPT !.rows = 1, !.cols = 2]
          /\ \E n \in 0..MaxFailing : \E ok \in [1..n -> BOOLEAN] :
                photos = [i \in 1..n |-> [PlainPhoto(i) EXCEPT !.decodes = ok[i]]]
       \/ /\ \E k \in {"A3", "Legal"} : settings = [INITIAL_SETTINGS EXCEPT !.paperSize = k]
          /\ photos = <<>>
    /\ preview = NotRendered
    /\ pdf = ExportIdle
    /\ png = ExportIdle
    /\ modal = ModalClosed
    /\ importing = NoImport
    /\ captioning = NoCaptionCall
    /\ isExporting = FALSE

\* a step of a scheduled or running export: the timer fires, an image load resolves
\* or fails, a loop runs on
ExportStep ==
    \/ PdfStart \/ PdfLayout \/ PdfDraw \/ PdfSave
    \/ PngStart \/ PngPageBegin \/ PngLayout \/ PngDraw \/ PngDownload \/ PngFinish

\* ENABLED <<ExportStep>>_vars: every position of a scheduled or running export has
\* exactly one step, and no other position has one
ExportEnabled == Exporting(pdf) \/ Exporting(png)

\* WF_vars(ExportStep), with its enabling condition written out: the steps of an
\* export are eventually taken; the user's clicks are not forced
ExportFairness == []<>(~ExportEnabled) \/ []<><<ExportStep>>_vars

FairSpec == InitExport /\ [][Next]_vars /\ ExportFairness

----------------------------------------------------------------------------
(* App.tsx: the automatic crop and the photo import *)

calculateCrop_InvertedRatio(imgWidth, imgHeight, targetRatio) ==
    LET imgRatio == Rat(imgWidth, imgHeight)
        Wider(w) == [x |-> RDiv(RSub(One, w), Num(2)), y |-> Zero,
                     width |-> w, height |-> One]
        Taller(h) == [x |-> Zero, y |-> RDiv(RSub(One, h), Num(2)),
                      width |-> One, height |-> h]
    IN  IF RLt(RAbs(RSub(imgRatio, targetRatio)), Rat(1, 100)) THEN FullCrop
        ELSE IF RLt(targetRatio, imgRatio) THEN Wider(RDiv(imgRatio, targetRatio))
        ELSE Taller(RDiv(targetRatio, imgRatio))

calculateCrop_NotCentred(imgWidth, imgHeight, targetRatio) ==
    LET imgRatio == Rat(imgWidth, imgHeight)
    IN  IF RLt(RAbs(RSub(imgRatio, targetRatio)), Rat(1, 100)) THEN FullCrop
        ELSE IF RLt(targetRatio, imgRatio)
        THEN [x |-> Zero, y |-> Zero, width |-> RDiv(targetRatio, imgRatio), height |-> One]
        ELSE [x |-> Zero, y |-> Zero, width |-> One, height |-> RDiv(imgRatio, targetRatio)]

\* the centred crop of an imgWidth x imgHeight image for targetRatio (a rational)
calculateCrop(imgWidth, imgHeight, targetRatio) ==
    LET imgRatio == Rat(imgWidth, imgHeight)
        Wider(w) == [x |-> RDiv(RSub(One, w), Num(2)), y |-> Zero,
                     width |-> w, height |-> One]
        Taller(h) == [x |-> Zero, y |-> RDiv(RSub(One, h), Num(2)),
                      width |-> One, height |-> h]
    IN  IF RLt(RAbs(RSub(imgRatio, targetRatio)), Rat(1, 100)) THEN FullCrop
        ELSE IF RLt(targetRatio, imgRatio) THEN Wider(RDiv(targetRatio, imgRatio))
        ELSE Taller(RDiv(imgRatio, targetRatio))

MaxImports == 1
MaxGestures == 2

\* the images a user picks: square, 4:3, 3:4, 16:9, almost square, panorama
ImageSizes ==
    {<<1000, 1000>>, <<4000, 3000>>, <<3000, 4000>>, <<1920, 1080>>,
     <<100, 101>>, <<3000, 200>>}

\* a file is picked: the target ratio is read now, then the image is decoded
handleFileUpload(imgSize) ==
    /\ ~importing.pending
    /\ Len(photos) < MaxImports
    /\ importing' = [pending |-> TRUE,
                     targetRatio |-> ASPECT_RATIOS[settings.aspectRatio],
                     imgSize |-> imgSize]
    /\ UNCHANGED <<settings, photos, preview, pdf, png, modal, captioning, isExporting>>

\* the image has decoded (img.onload); the photo is appended to the collection
handleFileUploadLoaded ==
    /\ importing.pending
    /\ photos' = Append(photos,
           [id |-> Len(photos) + 1, decodes |-> TRUE, caption |-> "",
            crop |-> calculateCrop(importing.imgSize[1], importing.imgSize[2],
                                   importing.targetRatio),
            adjustments |-> DEFAULT_ADJUSTMENTS,
            originalWidth |-> importing.imgSize[1],
            originalHeight |-> importing.imgSize[2]])
    /\ importing' = NoImport
    /\ UNCHANGED <<settings, preview, pdf, png, modal, captioning, isExporting>>

\* the image does not decode (img.onerror); the fallback photo is appended
handleFileUploadError ==
    /\ importing.pending
    /\ photos' = Append(photos,
           [id |-> Len(photos) + 1, decodes |-> FALSE, caption |-> "",
            crop |-> FullCrop, adjustments |-> DEFAULT_ADJUSTMENTS,
            originalWidth |-> 100, originalHeight |-> 100])
    /\ importing' = NoImport
    /\ UNCHANGED <<settings, preview, pdf, png, modal, captioning, isExporting>>

updateSettings_KeepCrops(newSettings) ==
    /\ ~modal.open
    /\ settings' = [k \in DOMAIN settings |->
                      IF k \in DOMAIN newSettings THEN newSettings[k] ELSE settings[k]]
    /\ UNCHANGED <<photos, preview, pdf, png, modal, importing, captioning, isExporting>>

updateSettings_AlwaysRecrop(newSettings) ==
    /\ ~modal.open
    /\ photos' = IF "aspectRatio" \in DOMAIN newSettings
                 THEN [i \in DOMAIN photos |->
                         [photos[i] EXCEPT !.crop =
                            calculateCrop(photos[i].originalWidth,
                                          photos[i].originalHeight,
                                          ASPECT_RATIOS[newSettings.aspectRatio])]]
                 ELSE photos
    /\ settings' = [k \in DOMAIN settings |->
                      IF k \in DOMAIN newSettings THEN newSettings[k] ELSE settings[k]]
    /\ UNCHANGED <<preview, pdf, png, modal, importing, captioning, isExporting>>

\* updateSettings(newSettings): newSettings is a partial Settings record; a change of
\* the aspect ratio recomputes every photo's crop
updateSettings(newSettings) ==
    /\ ~modal.open
    /\ photos' = IF "aspectRatio" \in DOMAIN newSettings
                    /\ newSettings.aspectRatio # settings.aspectRatio
                 THEN [i \in DOMAIN photos |->
                         IF photos[i].originalWidth # 0 /\ photos[i].originalHeight # 0
                         THEN [photos[i] EXCEPT !.crop =
                                 calculateCrop(photos[i].originalWidth,
                                               photos[i].originalHeight,
                                               ASPECT_RATIOS[newSettings.aspectRatio])]
                         ELSE photos[i]]
                 ELSE photos
    /\ settings' = [k \in DOMAIN settings |->
                      IF k \in DOMAIN newSettings THEN newSettings[k] ELSE settings[k]]
    /\ UNCHANGED <<preview, pdf, png, modal, importing, captioning, isExporting>>

\* the presets a user may have saved: full copies of earlier settings
Presets == {[INITIAL_SETTINGS EXCEPT !.aspectRatio = ar] : ar \in {"r1x1", "r16x9"}}

loadPreset(preset) ==
    /\ preset \in Presets
    /\ updateSettings(preset)

----------------------------------------------------------------------------
(* Sidebar.tsx: CropModal *)

\* containerRef.current.getBoundingClientRect(), in CSS pixels
Container == [width |-> 800, height |-> 600]

\* the mouse positions (clientX, clientY) of the events
MousePoints == {[x |-> 0, y |-> 0], [x |-> 400, y |-> 300], [x |-> 1600, y |-> 0]}

photoToCrop == photos[CHOOSE i \in DOMAIN photos : photos[i].id = modal.photoId]

\* the crop button of a photo: mounts CropModal with its initial state
OpenCrop(i) ==
    /\ ~modal.open
    /\ i \in DOMAIN photos
    /\ modal' = [open |-> TRUE, photoId |-> photos[i].id, imageLoaded |-> FALSE,
                 crop |-> photos[i].crop,
                 adjustments |-> photos[i].adjustments,
                 isDragging |-> FALSE, isResizing |-> FALSE,
                 dragStart |-> [x |-> 0, y |-> 0], startCrop |-> photos[i].crop,
                 gestures |-> modal.gestures]
    /\ UNCHANGED <<settings, photos, preview, pdf, png, importing, captioning, isExporting>>

resetCrop(imgW, imgH, targetRatio) ==
    LET Centered(newW, newH) ==
            [width |-> newW, height |-> newH,
             x |-> RDiv(RSub(One, newW), Num(2)),
             y |-> RDiv(RSub(One, newH), Num(2))]
    IN  IF RLt(targetRatio, Rat(imgW, imgH))
        THEN Centered(RDiv(RMul(Num(imgH), targetRatio), Num(imgW)), One)
        ELSE Centered(One, RDiv(RDiv(Num(imgW), targetRatio), Num(imgH)))

\* the image's onLoad and the effect that follows it
ImageLoaded ==
    /\ modal.open
    /\ ~modal.imageLoaded
    /\ photoToCrop.decodes
    /\ modal' = [modal EXCEPT
                   !.imageLoaded = TRUE,
                   !.crop = IF RLe(modal.crop.width, Zero)
                            THEN resetCrop(photoToCrop.originalWidth,
                                           photoToCrop.originalHeight,
                                           ASPECT_RATIOS[settings.aspectRatio])
                            ELSE modal.crop]
    /\ UNCHANGED <<settings, photos, preview, pdf, png, importing, captioning, isExporting>>

\* action is "drag" (the crop box) or "resize" (its handle); both are rendered
\* only once the image has loaded
handleMouseDown(e, action) ==
    /\ modal.open
    /\ modal.imageLoaded
    /\ modal.gestures < MaxGestures
    /\ modal' = [modal EXCEPT
                   !.gestures = @ + 1,
                   !.isDragging = IF action = "drag" THEN TRUE ELSE @,
                   !.isResizing = IF action = "resize" THEN TRUE ELSE @,
                   !.dragStart = [x |-> e.x, y |-> e.y],
                   !.startCrop = modal.crop]
    /\ UNCHANGED <<settings, photos, preview, pdf, png, importing, captioning, isExporting>>

\* the displayed image's size in the container ("contain" fit)
DisplaySize(imgNaturalW, imgNaturalH) ==
    LET imgAspect == Rat(imgNaturalW, imgNaturalH)
        containerRatio == Rat(Container.width, Container.height)
    IN  IF RLt(containerRatio, imgAspect)
        THEN [displayW |-> Num(Container.width),
              displayH |-> RDiv(Num(Container.width), imgAspect)]
        ELSE [displayW |-> RMul(Num(Container.height), imgAspect),
              displayH |-> Num(Container.height)]

applyDrag_NoLowerClamp(startCrop, crop, deltaX, deltaY) ==
    [crop EXCEPT
       !.x = RMin(RAdd(startCrop.x, deltaX), RSub(One, crop.width)),
       !.y = RMin(RAdd(startCrop.y, deltaY), RSub(One, crop.height))]

\* the drag branch of handleMouseMove
applyDrag(startCrop, crop, deltaX, deltaY) ==
    [crop EXCEPT
       !.x = RMax(Zero, RMin(RAdd(startCrop.x, deltaX), RSub(One, crop.width))),
       !.y = RMax(Zero, RMin(RAdd(startCrop.y, deltaY), RSub(One, crop.height)))]

applyResize_FromCentre(startCrop, crop, deltaX, ratio) ==
    [crop EXCEPT !.x = RSub(startCrop.x, RDiv(deltaX, Num(2))),
                 !.width = RAdd(startCrop.width, deltaX),
                 !.height = RMul(RAdd(startCrop.width, deltaX), ratio)]

\* the resize branch of handleMouseMove; ratio is imgAspect / targetRatio
applyResize(startCrop, crop, deltaX, ratio) ==
    LET ClampMinimums(newWidth, newHeight) ==
            [crop EXCEPT
               !.width = IF RLt(newWidth, Rat(1, 10)) THEN Rat(1, 10) ELSE newWidth,
               !.height = newHeight]
        ClampY(newWidth, newHeight) ==
            IF RLt(One, RAdd(startCrop.y, newHeight))
            THEN ClampMinimums(RDiv(RSub(One, startCrop.y), ratio),
                               RSub(One, startCrop.y))
            ELSE ClampMinimums(newWidth, newHeight)
        ClampX(newWidth) ==
            IF RLt(One, RAdd(startCrop.x, newWidth))
            THEN ClampY(RSub(One, startCrop.x), RMul(RSub(One, startCrop.x), ratio))
            ELSE ClampY(newWidth, RMul(newWidth, ratio))
    IN  ClampX(RAdd(startCrop.width, deltaX))

handleMouseMove(e) ==
    /\ modal.open
    /\ modal.isDragging \/ modal.isResizing
    /\ \E p \in {photoToCrop} :
       \E d \in {DisplaySize(p.originalWidth, p.originalHeight)} :
       \E deltaX \in {RDiv(Num(e.x - modal.dragStart.x), d.displayW)} :
       \E deltaY \in {RDiv(Num(e.y - modal.dragStart.y), d.displayH)} :
          modal' = [modal EXCEPT !.crop =
                      IF modal.isDragging
                      THEN applyDrag(modal.startCrop, modal.crop, deltaX, deltaY)
                      ELSE applyResize(modal.startCrop, modal.crop, deltaX,
                                       RDiv(Rat(p.originalWidth, p.originalHeight),
                                            ASPECT_RATIOS[settings.aspectRatio]))]
    /\ UNCHANGED <<settings, photos, preview, pdf, png, importing, captioning, isExporting>>

\* onMouseUp and onMouseLeave of the modal
handleMouseUp ==
    /\ modal.open
    /\ modal' = [modal EXCEPT !.isDragging = FALSE, !.isResizing = FALSE]
    /\ UNCHANGED <<settings, photos, preview, pdf, png, importing, captioning, isExporting>>

\* the values the adjustment sliders (0..200) are moved to
AdjustValues == {50}

\* a slider of the modal, or its reset button, sets the local adjustments
setAdjustments(adjustments) ==
    /\ modal.open
    /\ modal.gestures < MaxGestures
    /\ modal' = [modal EXCEPT !.gestures = @ + 1, !.adjustments = adjustments]
    /\ UNCHANGED <<settings, photos, preview, pdf, png, importing, captioning, isExporting>>

handleSavePhoto_CropOnly(id, crop, adjustments) ==
    /\ photos' = [i \in DOMAIN photos |->
                    IF photos[i].id = id THEN [photos[i] EXCEPT !.crop = crop]
                    ELSE photos[i]]
    /\ modal' = [ModalClosed EXCEPT !.gestures = modal.gestures]
    /\ UNCHANGED <<settings, preview, pdf, png, importing, captioning, isExporting>>

\* App.handleSavePhoto(id, crop, adjustments); setCropPhotoId(null) unmounts the modal
handleSavePhoto(id, crop, adjustments) ==
    /\ photos' = [i \in DOMAIN photos |->
                    IF photos[i].id = id
                    THEN [photos[i] EXCEPT !.crop = crop, !.adjustments = adjustments]
                    ELSE photos[i]]
    /\ modal' = [ModalClosed EXCEPT !.gestures = modal.gestures]
    /\ UNCHANGED <<settings, preview, pdf, png, importing, captioning, isExporting>>

\* the modal's save button: onSave(photo.id, crop, adjustments)
onSave ==
    /\ modal.open
    /\ handleSavePhoto(modal.photoId, modal.crop, modal.adjustments)

\* the modal's close and cancel buttons
onClose ==
    /\ modal.open
    /\ modal' = [ModalClosed EXCEPT !.gestures = modal.gestures]
    /\ UNCHANGED <<settings, photos, preview, pdf, png, importing, captioning, isExporting>>

InitCrop ==
    /\ settings = INITIAL_SETTINGS
    /\ photos = <<>>
    /\ preview = NotRendered
    /\ pdf = ExportIdle
    /\ png = ExportIdle
    /\ modal = ModalClosed
    /\ importing = NoImport
    /\ captioning = NoCaptionCall
    /\ isExporting = FALSE

NextCrop ==
    \/ \E imgSize \in ImageSizes : handleFileUpload(imgSize)
    \/ handleFileUploadLoaded
    \/ handleFileUploadError
    \/ \E ar \in AspectRatioKeys : updateSettings([aspectRatio |-> ar])
    \/ \E preset \in Presets : loadPreset(preset)
    \/ \E i \in 1..MaxImports : OpenCrop(i)
    \/ ImageLoaded
    \/ \E e \in MousePoints, action \in {"drag", "resize"} : handleMouseDown(e, action)
    \/ \E e \in MousePoints : handleMouseMove(e)
    \/ handleMouseUp
    \/ \E k \in DOMAIN DEFAULT_ADJUSTMENTS, v \in AdjustValues :
          setAdjustments([modal.adjustments EXCEPT ![k] = v])
    \/ setAdjustments(DEFAULT_ADJUSTMENTS)
    \/ onSave
    \/ onClose

SpecCrop == InitCrop /\ [][NextCrop]_vars

----------------------------------------------------------------------------
(* App.tsx: the photo collection (remove, save, caption) and the settings *)

removePhoto(id) ==
    /\ photos' = SelectSeq(photos, LAMBDA p : p.id # id)
    /\ UNCHANGED <<settings, preview, pdf, png, modal, importing, captioning, isExporting>>

updateCaption_ByPosition(id, text) ==
    /\ photos' = [i \in DOMAIN photos |->
                    IF i = id THEN [photos[i] EXCEPT !.caption = text] ELSE photos[i]]
    /\ UNCHANGED <<settings, preview, pdf, png, modal, importing, captioning, isExporting>>

updateCaption(id, text) ==
    /\ photos' = [i \in DOMAIN photos |->
                    IF photos[i].id = id THEN [photos[i] EXCEPT !.caption = text]
                    ELSE photos[i]]
    /\ UNCHANGED <<settings, preview, pdf, png, modal, importing, captioning, isExporting>>

\* the ids the three functions are called with; MaxId belongs to no photo
MaxId == 4
PhotoIds == 1..MaxId

\* a crop as saved from the modal after a drag and a resize
EditedCrop == [x |-> Rat(1, 10), y |-> Rat(1, 5), width |-> Rat(1, 2), height |-> Rat(1, 2)]

EditedAdjustments == [brightness |-> 120, contrast |-> 100, saturation |-> 80]

CaptionTexts == {"", "beach"}

\* the changes of the settings made from the sidebar
SettingsChanges ==
    {[rows |-> 2], [gapMm |-> Num(5)], [style |-> "minimal"]}
    \cup {[aspectRatio |-> ar] : ar \in {"r1x1", "r4x3"}}

\* three imported photos: 4000 x 3000 with a saved edit, 1000 x 1000 as imported,
\* and one whose image did not decode
InitCollection ==
    /\ settings = INITIAL_SETTINGS
    /\ photos =
         <<[id |-> 1, decodes |-> TRUE, caption |-> "lake", crop |-> EditedCrop,
            adjustments |-> EditedAdjustments,
            originalWidth |-> 4000, originalHeight |-> 3000],
           [id |-> 2, decodes |-> TRUE, caption |-> "",
            crop |-> calculateCrop(1000, 1000, ASPECT_RATIOS[INITIAL_SETTINGS.aspectRatio]),
            adjustments |-> DEFAULT_ADJUSTMENTS,
            originalWidth |-> 1000, originalHeight |-> 1000],
           [id |-> 3, decodes |-> FALSE, caption |-> "", crop |-> FullCrop,
            adjustments |-> DEFAULT_ADJUSTMENTS,
            originalWidth |-> 100, originalHeight |-> 100]>>
    /\ preview = NotRendered
    /\ pdf = ExportIdle
    /\ png = ExportIdle
    /\ modal = ModalClosed
    /\ importing = NoImport
    /\ captioning = NoCaptionCall
    /\ isExporting = FALSE

NextCollection ==
    \/ \E id \in PhotoIds : removePhoto(id)
    \/ \E id \in PhotoIds : handleSavePhoto(id, EditedCrop, EditedAdjustments)
    \/ \E id \in PhotoIds, text \in CaptionTexts : updateCaption(id, text)
    \/ \E newSettings \in SettingsChanges : updateSettings(newSettings)
    \/ \E preset \in Presets : loadPreset(preset)

SpecPhotos == InitCollection /\ [][NextCollection]_vars



----------------------------------------------------------------------------
(* geminiService.ts: generateCaption *)

MaxTextLen == 3

Whitespace == {" ", "\n"}

\* the caption texts the model may answer with, as sequences of characters
Texts == UNION {[1..n -> Whitespace \cup {"a", "b"}] : n \in 0..MaxTextLen}

RECURSIVE TrimStart(_)
TrimStart(t) ==
    IF t # <<>> /\ Head(t) \in Whitespace THEN TrimStart(Tail(t)) ELSE t

RECURSIVE TrimEnd(_)
TrimEnd(t) ==
    IF t # <<>> /\ t[Len(t)] \in Whitespace THEN TrimEnd(SubSeq(t, 1, Len(t) - 1)) ELSE t

\* String.prototype.trim
Trim(t) == TrimEnd(TrimStart(t))

\* the string returned when no API key is configured
API_KEY_MISSING == <<"Legenda (API Key Missing)">>

\* generateCaption up to the await of ai.models.generateContent
generateCaption(base64Image) ==
    /\ captioning.pc = "idle"
    /\ captioning' =
          IF captioning.apiKey = ""
          THEN [captioning EXCEPT !.pc = "returned", !.base64Image = base64Image,
                                  !.result = API_KEY_MISSING]
          ELSE [captioning EXCEPT !.pc = "calling", !.base64Image = base64Image]
    /\ UNCHANGED <<settings, photos, preview, pdf, png, modal, importing, isExporting>>

\* the service answers; response.text is the string t or, when hasText is FALSE, undefined
generateContentResolved(hasText, t) ==
    /\ captioning.pc = "calling"
    /\ captioning' = [captioning EXCEPT
                        !.pc = "returned",
                        !.outcome = IF hasText THEN "text" ELSE "undefined",
                        !.text = IF hasText THEN t ELSE <<>>,
                        !.result = IF hasText THEN Trim(t) ELSE <<>>]
    /\ UNCHANGED <<settings, photos, preview, pdf, png, modal, importing, isExporting>>

\* the service call throws (network, authorisation); the catch returns ""
generateContentRejected ==
    /\ captioning.pc = "calling"
    /\ captioning' = [captioning EXCEPT !.pc = "returned", !.outcome = "rejected",
                                        !.result = <<>>]
    /\ UNCHANGED <<settings, photos, preview, pdf, png, modal, importing, isExporting>>

InitCaption ==
    /\ settings = INITIAL_SETTINGS
    /\ photos = <<>>
    /\ preview = NotRendered
    /\ pdf = ExportIdle
    /\ png = ExportIdle
    /\ modal = ModalClosed
    /\ importing = NoImport
    /\ \E k \in {"", "key"} : captioning = [NoCaptionCall EXCEPT !.apiKey = k]
    /\ isExporting = FALSE

NextCaption ==
    \/ \E img \in {"data:image/jpeg;base64,AAAA", "data:image/png;base64,BBBB"} :
          generateCaption(img)
    \/ \E t \in Texts : generateContentResolved(TRUE, t)
    \/ generateContentResolved(FALSE, <<>>)
    \/ generateContentRejected

SpecCaption == InitCaption /\ [][NextCaption]_vars

----------------------------------------------------------------------------
(* Properties of the renderers *)

\* a rectangle relative to the origin of its cell
RectRel(img, cell) ==
    [x |-> RSub(img.x, cell.x), y |-> RSub(img.y, cell.y), w |-> img.w, h |-> img.h]

\* a pixel rectangle divided by a pixel-per-mm scale
RectDiv(r, k) ==
    [x |-> RDiv(r.x, Num(k)), y |-> RDiv(r.y, Num(k)),
     w |-> RDiv(r.w, Num(k)), h |-> RDiv(r.h, Num(k))]

NPhotos == Len(photos)
ItemsPerPage == settings.rows * settings.cols
AllRendered == preview.mounted /\ pdf.pc = "done" /\ png.pc = "done"

\* ceil(n / k) on naturals, k > 0
CeilDiv(n, k) == (n + k - 1) \div k
Max(a, b) == IF a > b THEN a ELSE b

\* C1: for every photo, the inner image rectangle (offset inside the cell, width,
\* height, in mm) of the preview's PhotoCell equals the one generatePDF computes and
\* the one generatePNG computes divided by its scale of 8, for every style.
C1_InnerRectsAgree ==
    AllRendered =>
        \A k \in 1..NPhotos :
            /\ preview.cells[k].img = RectRel(pdf.placed[k].img, pdf.placed[k].cell)
            /\ preview.cells[k].img
                 = RectDiv(RectRel(png.placed[k].img, png.placed[k].cell), SCALE)

\* the cell rectangle the specification gives for (row, col), from the resolved page
ClaimedCell(s, pageW, pageH, row, col) ==
    LET cellW == RDiv(RSub(RSub(pageW, RMul(Num(2), s.paddingHorizontalMm)),
                           RMul(s.gapMm, Num(s.cols - 1))), Num(s.cols))
        cellH == RDiv(RSub(RSub(pageH, RMul(Num(2), s.paddingVerticalMm)),
                           RMul(s.gapMm, Num(s.rows - 1))), Num(s.rows))
    IN  [x |-> RAdd(s.paddingHorizontalMm, RMul(Num(col), RAdd(cellW, s.gapMm))),
         y |-> RAdd(s.paddingVerticalMm, RMul(Num(row), RAdd(cellH, s.gapMm))),
         w |-> cellW, h |-> cellH]

\* A4 portrait, 3 rows x 2 cols, gap 10, padding 15 on both axes
ScenarioA4 ==
    /\ settings.paperSize = "A4" /\ settings.orientation = "portrait"
    /\ settings.rows = 3 /\ settings.cols = 2
    /\ settings.gapMm = Num(10)
    /\ settings.paddingHorizontalMm = Num(15) /\ settings.paddingVerticalMm = Num(15)

\* C2: the preview, generatePDF and generatePNG all compute, for every (row, col),
\* the cell rectangle cellW = (pageW - 2*paddingH - gap*(cols-1))/cols,
\* cellH = (pageH - 2*paddingV - gap*(rows-1))/rows, x = paddingH + col*(cellW+gap),
\* y = paddingV + row*(cellH+gap); in the A4 scenario cellW = 85 and cellH = 247/3.
C2_CellRects ==
    /\ \A k \in DOMAIN preview.cells :
          LET c == preview.cells[k]
          IN  [x |-> c.xMm, y |-> c.yMm, w |-> c.widthMm, h |-> c.heightMm]
                = ClaimedCell(settings, RDiv(preview.widthPx, Num(SCREEN_SCALE)),
                              RDiv(preview.heightPx, Num(SCREEN_SCALE)), c.row, c.col)
    /\ \A k \in DOMAIN pdf.placed :
          LET pl == pdf.placed[k]
          IN  /\ pl.cell = ClaimedCell(settings, pdf.doc.finalDocW, pdf.doc.finalDocH,
                                       pl.row, pl.col)
              /\ ScenarioA4 => pl.cell.w = Num(85) /\ pl.cell.h = Rat(247, 3)
    /\ \A k \in DOMAIN png.placed :
          LET pl == png.placed[k]
          IN  /\ RectDiv(pl.cell, SCALE)
                    = ClaimedCell(settings, png.doc.finalDocW, png.doc.finalDocH,
                                  pl.row, pl.col)
              /\ ScenarioA4 => RDiv(pl.cell.w, Num(SCALE)) = Num(85)
                               /\ RDiv(pl.cell.h, Num(SCALE)) = Rat(247, 3)
    /\ (preview.mounted /\ ScenarioA4) =>
          \A k \in DOMAIN preview.cells :
              preview.cells[k].widthMm = Num(85) /\ preview.cells[k].heightMm = Rat(247, 3)

\* C2 witness: the A4 scenario with a full page laid out by all three renderers
C2_Witness ==
    /\ ScenarioA4 /\ AllRendered
    /\ Len(pdf.placed) = 6 /\ Len(png.placed) = 6 /\ Len(preview.cells) = 6
    /\ pdf.placed[6].cell = [x |-> Num(110), y |-> Rat(599, 3), w |-> Num(85), h |-> Rat(247, 3)]

\* the pages the three renderers resolved, for those that have resolved one
ResolvedPages ==
    (IF preview.mounted
     THEN {[finalDocW |-> RDiv(preview.widthPx, Num(SCREEN_SCALE)),
            finalDocH |-> RDiv(preview.heightPx, Num(SCREEN_SCALE))]}
     ELSE {})
    \cup (IF pdf.pc \notin {"idle", "scheduled"} THEN {pdf.doc} ELSE {})
    \cup (IF png.pc \notin {"idle", "scheduled"}
          THEN {[finalDocW |-> png.doc.finalDocW, finalDocH |-> png.doc.finalDocH]}
          ELSE {})

IsPortrait == settings.orientation = "portrait"

\* the paper dimensions as entered
EnteredPaper ==
    IF settings.paperSize = "Custom"
    THEN <<settings.customPaperWidth, settings.customPaperHeight>>
    ELSE <<PAPER_SIZES[settings.paperSize].widthMm, PAPER_SIZES[settings.paperSize].heightMm>>

\* C3 as stated: for every paper size and orientation the resolved page satisfies
\* finalDocW <= finalDocH if and only if the orientation is portrait.
C3_PortraitIffNarrower ==
    KnownPaper(settings) =>
       \A d \in ResolvedPages : RLe(d.finalDocW, d.finalDocH) <=> IsPortrait

\* C3 amended: finalDocW <= finalDocH when portrait, finalDocW >= finalDocH when
\* landscape, whichever way the dimensions were entered; the two directions make an
\* "if and only if" exactly when the two paper dimensions differ. (The paper sizes of
\* the claim are the keys of the table and Custom.)
C3_OrientationNormalised ==
    KnownPaper(settings) =>
       \A d \in ResolvedPages :
           /\ IsPortrait => RLe(d.finalDocW, d.finalDocH)
           /\ ~IsPortrait => RLe(d.finalDocH, d.finalDocW)
           /\ {d.finalDocW, d.finalDocH} = {EnteredPaper[1], EnteredPaper[2]}
           /\ EnteredPaper[1] # EnteredPaper[2] =>
                 (RLe(d.finalDocW, d.finalDocH) <=> IsPortrait)

\* C3 witness: a custom paper entered wider than tall, resolved as portrait by all three
C3_Witness ==
    /\ settings.paperSize = "Custom" /\ IsPortrait
    /\ RLt(settings.customPaperHeight, settings.customPaperWidth)
    /\ AllRendered
    /\ Cardinality(ResolvedPages) = 1

\* the placement of flat index i the specification gives
ClaimedPlace(i) ==
    [page |-> i \div ItemsPerPage,
     row  |-> (i % ItemsPerPage) \div settings.cols,
     col  |-> (i % ItemsPerPage) % settings.cols]

\* page, row, col of the photo cells the preview rendered, by flat photo index
PreviewPlaces ==
    {[i |-> preview.cells[k].photoIdx, page |-> preview.cells[k].pageIdx,
      row |-> preview.cells[k].row, col |-> preview.cells[k].col] :
        k \in {j \in DOMAIN preview.cells : preview.cells[j].photoIdx >= 0}}

Places(e) ==
    {[i |-> e.placed[k].i, page |-> e.placed[k].page,
      row |-> e.placed[k].row, col |-> e.placed[k].col] : k \in DOMAIN e.placed}

PlacesOk(P) ==
    /\ \A a \in P :
          /\ [page |-> a.page, row |-> a.row, col |-> a.col] = ClaimedPlace(a.i)
          /\ a.row < settings.rows /\ a.col < settings.cols
    /\ \A a, b \in P :
          (a.page = b.page /\ a.row = b.row /\ a.col = b.col) => a.i = b.i

Scenario7 == NPhotos = 7 /\ settings.rows = 3 /\ settings.cols = 2

\* C4: photo i is placed at page floor(i/(rows*cols)), row floor((i mod rows*cols)/cols),
\* col (i mod rows*cols) mod cols by the preview, generatePDF and generatePNG alike; no
\* two photos share a page cell; row < rows and col < cols; with 7 photos on a 3x2 grid
\* the second page holds exactly photo 6 at row 0, col 0.
C4_Placement ==
    /\ PlacesOk(PreviewPlaces) /\ PlacesOk(Places(pdf)) /\ PlacesOk(Places(png))
    /\ preview.mounted => {a.i : a \in PreviewPlaces} = 0..(NPhotos - 1)
    /\ pdf.pc = "done" => Places(pdf) = PreviewPlaces
    /\ png.pc = "done" => Places(png) = PreviewPlaces
    /\ (Scenario7 /\ preview.mounted) =>
          {a \in PreviewPlaces : a.page = 1} = {[i |-> 6, page |-> 1, row |-> 0, col |-> 0]}
    /\ (Scenario7 /\ pdf.pc = "done") =>
          {a \in Places(pdf) : a.page = 1} = {[i |-> 6, page |-> 1, row |-> 0, col |-> 0]}
    /\ (Scenario7 /\ png.pc = "done") =>
          {a \in Places(png) : a.page = 1} = {[i |-> 6, page |-> 1, row |-> 0, col |-> 0]}

\* C4 witness: 7 photos on the 3x2 grid, placed by all three renderers over two pages
C4_Witness ==
    /\ Scenario7 /\ AllRendered
    /\ Cardinality(PreviewPlaces) = 7 /\ Len(pdf.placed) = 7 /\ Len(png.placed) = 7
    /\ pdf.placed[7].page = 1 /\ png.placed[7].page = 1

\* the names of the PNG files downloaded so far, in order
PngDownloads == SelectSeq(png.ops, LAMBDA o : o.op = "download")

ClaimedPages == Max(1, CeilDiv(NPhotos, ItemsPerPage))

PngPagesOk ==
    /\ \A k \in DOMAIN PngDownloads : PngDownloads[k].name = k /\ PngDownloads[k].page = k - 1
    /\ Len(PngDownloads) <= ClaimedPages
    /\ png.pc = "done" => Len(PngDownloads) = ClaimedPages /\ png.pages = ClaimedPages

\* C5 as stated: for every n >= 0 the preview renders max(1, ceil(n/(rows*cols))) pages
\* and generatePNG emits exactly that many artifacts, polaroid-page-1 .. polaroid-page-N
\* in increasing order, including one blank page when n = 0.
C5_PageCount ==
    /\ preview.rendered => preview.pages = ClaimedPages
    /\ PngPagesOk

\* C5 amended: generatePNG emits exactly max(1, ceil(n/(rows*cols))) artifacts,
\* polaroid-page-1 .. polaroid-page-N in increasing order, one blank page when n = 0;
\* the preview renders ceil(n/(rows*cols)) pages for n >= 1, and for n = 0 the workspace
\* shows the empty-collection placeholder and no preview page. With a paper key that
\* is neither in the table nor Custom, nothing is paginated: the export fails before
\* its first page and the preview does not render.
C5_PageCountAmended ==
    /\ preview.rendered =>
          /\ NPhotos >= 1 /\ KnownPaper(settings) =>
                /\ preview.mounted /\ preview.pages = ClaimedPages
                /\ Len(preview.cells) = ClaimedPages * ItemsPerPage
          /\ NPhotos = 0 \/ ~KnownPaper(settings) => ~preview.mounted /\ preview.pages = 0
    /\ PngPagesOk
    /\ ~KnownPaper(settings) => Len(PngDownloads) = 0

\* C5 witness: no photos, the placeholder rendered, one blank PNG page downloaded
C5_Witness ==
    /\ NPhotos = 0 /\ preview.rendered /\ png.pc = "done"
    /\ Len(PngDownloads) = 1 /\ Len(png.placed) = 0

PdfAddPages == Len(SelectSeq(pdf.ops, LAMBDA o : o.op = "addPage"))

\* C6: during generatePDF a page is added exactly when a photo with flat index i > 0
\* and i mod (rows*cols) = 0 starts being processed; every photo is drawn on page
\* floor(i/(rows*cols)); the finished document has max(1, ceil(n/(rows*cols))) pages.
C6_PdfPagination ==
    /\ [][ (Generating(pdf) /\ pdf'.pages # pdf.pages)
             <=> (/\ pdf.pc = "loop" /\ pdf'.pc = "await"
                  /\ pdf.i > 0 /\ pdf.i % ItemsPerPage = 0
                  /\ pdf'.pages = pdf.pages + 1) ]_vars
    /\ [](/\ \A k \in DOMAIN pdf.placed : pdf.placed[k].page = pdf.placed[k].i \div ItemsPerPage
          /\ Generating(pdf) \/ pdf.pc = "done" => pdf.pages = 1 + PdfAddPages
          /\ pdf.pc = "done" => /\ pdf.pages = ClaimedPages
                                /\ Len(pdf.placed) = NPhotos
                                /\ pdf.ops[Len(pdf.ops)] = [op |-> "save", pages |-> ClaimedPages])

\* C6 witness: a saved document of two pages whose last page is full (6 photos on 3 cells)
C6_Witness ==
    /\ pdf.pc = "done" /\ NPhotos = 6 /\ ItemsPerPage = 3
    /\ pdf.pages = 2 /\ PdfAddPages = 1

----------------------------------------------------------------------------
(* Properties of the automatic crop and of the crop modal *)

\* the Crop invariants
CropOk(c) ==
    /\ RLe(Zero, c.x) /\ RLe(Zero, c.y)
    /\ RLt(Zero, c.width) /\ RLt(Zero, c.height)
    /\ RLe(RAdd(c.x, c.width), One)
    /\ RLe(RAdd(c.y, c.height), One)

\* the photo an import has just appended
Imported == photos'[Len(photos')]

\* the aspect ratio of the pixel region a photo's crop selects
CropAspect(p) ==
    RDiv(RMul(p.crop.width, Num(p.originalWidth)),
         RMul(p.crop.height, Num(p.originalHeight)))

\* C7: for every image size and every target ratio in ASPECT_RATIOS, the crop that
\* calculateCrop returns to the import satisfies x >= 0, y >= 0, width > 0, height > 0,
\* x + width <= 1 and y + height <= 1.
C7_CalculateCropInvariants ==
    [][ handleFileUploadLoaded =>
          /\ Imported.crop = calculateCrop(importing.imgSize[1], importing.imgSize[2],
                                           importing.targetRatio)
          /\ importing.targetRatio \in {ASPECT_RATIOS[k] : k \in AspectRatioKeys}
          /\ CropOk(Imported.crop) ]_vars

\* C7 witness: an imported 16:9 image cropped to a narrower ratio, off both side edges
C7_Witness ==
    /\ Len(photos) = 1 /\ photos[1].decodes /\ modal.gestures = 0
    /\ photos[1].originalWidth = 1920
    /\ RLt(photos[1].crop.width, One) /\ RLt(Zero, photos[1].crop.x)
    /\ photos[1].crop.height = One

\* C8: for every image size and every target ratio, the pixel region that the crop
\* returned by calculateCrop selects has aspect ratio
\* (crop.width*imgWidth)/(crop.height*imgHeight) equal to the target ratio within 1e-6,
\* also for images whose own ratio is within 0.01 of the target.
C8_CropAspectIsTarget ==
    [][ handleFileUploadLoaded =>
          RLe(RAbs(RSub(CropAspect(Imported), importing.targetRatio)),
              Rat(1, 1000000)) ]_vars

\* C9: a drag that starts from a crop satisfying the Crop invariants leaves, for every
\* mouse position, width and height unchanged, x in [0, 1 - width] and y in
\* [0, 1 - height]; when the mouse is where the drag started the crop is the one the
\* drag started from.
C9_DragClamps ==
    [][ \A e \in MousePoints :
          (modal.isDragging /\ CropOk(modal.startCrop) /\ handleMouseMove(e)) =>
             /\ modal'.crop.width = modal.startCrop.width
             /\ modal'.crop.height = modal.startCrop.height
             /\ RLe(Zero, modal'.crop.x)
             /\ RLe(modal'.crop.x, RSub(One, modal.startCrop.width))
             /\ RLe(Zero, modal'.crop.y)
             /\ RLe(modal'.crop.y, RSub(One, modal.startCrop.height))
             /\ (e = modal.dragStart => modal'.crop = modal.startCrop) ]_vars

\* C9 witness: a drag from a valid crop away from both edges has saturated at the right
\* edge, and another at the left edge
C9_Witness ==
    /\ modal.open /\ modal.isDragging /\ CropOk(modal.startCrop)
    /\ RLt(Zero, modal.startCrop.x)
    /\ RLt(RAdd(modal.startCrop.x, modal.startCrop.width), One)
    /\ modal.crop.x = RSub(One, modal.crop.width)

\* C10: in the crop modal, after any sequence of drag and resize gestures the crop
\* satisfies width > 0, height > 0, x + width <= 1 and y + height <= 1.
C10_CropStaysValid ==
    modal.open =>
       /\ RLt(Zero, modal.crop.width) /\ RLt(Zero, modal.crop.height)
       /\ RLe(RAdd(modal.crop.x, modal.crop.width), One)
       /\ RLe(RAdd(modal.crop.y, modal.crop.height), One)

----------------------------------------------------------------------------
(* Properties of the settings, the import and the exporters' failure handling *)

\* the automatic crop of photo p for the aspect ratio key ar
AutoCrop(p, ar) == calculateCrop(p.originalWidth, p.originalHeight, ASPECT_RATIOS[ar])

\* C11: every step that changes the target aspect ratio (updateSettings directly or
\* through loadPreset) leaves every photo of the collection with
\* crop = calculateCrop(originalWidth, originalHeight, new ratio), whatever crop it had,
\* including one saved from the crop modal.
C11_RatioChangeResetsCrops ==
    [][ settings'.aspectRatio # settings.aspectRatio =>
          /\ Len(photos') = Len(photos)
          /\ \A i \in DOMAIN photos' :
                /\ photos'[i].crop = AutoCrop(photos'[i], settings'.aspectRatio)
                /\ [photos'[i] EXCEPT !.crop = FullCrop]
                      = [photos[i] EXCEPT !.crop = FullCrop] ]_vars

\* C11 witness: after gestures in the modal the ratio is no longer the initial one and
\* the photo carries the (non-trivial) automatic crop of the new ratio
C11_Witness ==
    /\ settings.aspectRatio = "r16x9" /\ ~modal.open /\ modal.gestures = MaxGestures
    /\ Len(photos) = 1 /\ photos[1].decodes /\ photos[1].originalWidth = 3000
    /\ photos[1].originalHeight = 4000
    /\ photos[1].crop = AutoCrop(photos[1], "r16x9")
    /\ photos[1].crop # FullCrop

\* the rectangle img lies in the image box a, has exactly the ratio, and is centred in
\* the box horizontally and vertically
FitOk(a, img, ratio) ==
    /\ RLe(a.imgX, img.x) /\ RLe(RAdd(img.x, img.w), RAdd(a.imgX, a.imgW))
    /\ RLe(a.imgY, img.y) /\ RLe(RAdd(img.y, img.h), RAdd(a.imgY, a.imgH))
    /\ img.w = RMul(img.h, ratio)
    /\ RSub(img.x, a.imgX) = RSub(RAdd(a.imgX, a.imgW), RAdd(img.x, img.w))
    /\ RSub(img.y, a.imgY) = RSub(RAdd(a.imgY, a.imgH), RAdd(img.y, img.h))

\* C12: the aspect-fit step of the preview and of both exporters always returns a
\* rectangle that lies inside its input image box, whose width/height is exactly the
\* target ratio, and that is centred on the axis where it is smaller than the box.
C12_FitInsideBox ==
    LET ratio == ASPECT_RATIOS[settings.aspectRatio]
    IN  /\ \A k \in DOMAIN pdf.placed :
              LET c == pdf.placed[k].cell
              IN  FitOk(PdfImageArea(settings, c.x, c.y, c.w, c.h), pdf.placed[k].img, ratio)
        /\ \A k \in DOMAIN png.placed :
              FitOk(PngImageArea(settings, png.placed[k].cell, PngGrid(settings).cellWidth),
                    png.placed[k].img, ratio)
        /\ \A k \in DOMAIN preview.cells :
              preview.cells[k].photoIdx >= 0 =>
                 FitOk(PhotoCellArea(settings, preview.cells[k].widthMm,
                                     preview.cells[k].heightMm),
                       preview.cells[k].img, ratio)

\* the calls of the given kinds that an exporter issued for the photo with this id
PhotoOps(e, kinds, id) == SelectSeq(e.ops, LAMBDA o : o.op \in kinds /\ o.photo = id)

\* the card background of a placed photo was filled on its page
CardDrawn(e, pl) ==
    \E j \in DOMAIN e.ops :
        /\ e.ops[j].op \in {"rectF", "fillRect"}
        /\ e.ops[j].page = pl.page /\ e.ops[j].rect = pl.cell

CaptionConfigured(ph) ==
    settings.showCaptions /\ ph.caption # "" /\ settings.style = "polaroid"

\* what a finished export did for each photo of the batch
FailuresHandled(e) ==
    e.pc = "done" =>
       /\ Len(e.placed) = NPhotos
       /\ \A k \in DOMAIN photos :
             LET pl == e.placed[k]
             IN  /\ pl.i = k - 1
                 /\ [page |-> pl.page, row |-> pl.row, col |-> pl.col] = ClaimedPlace(k - 1)
                 /\ Len(PhotoOps(e, {"addImage", "drawImage"}, photos[k].id))
                       = (IF photos[k].decodes THEN 1 ELSE 0)
                 /\ (settings.style # "borderless" /\ settings.backgroundColor # TRANSPARENT)
                       => CardDrawn(e, pl)
                 /\ Len(PhotoOps(e, {"text", "fillText"}, photos[k].id))
                       = (IF CaptionConfigured(photos[k]) THEN 1 ELSE 0)

\* C13: in generatePDF and generatePNG a photo whose image fails to load (or has width
\* 0) gets no image drawn, its card background and, if configured, its caption are
\* still drawn, and every photo after it is still processed and placed in its own cell
\* (stated on the finished export).
C13_FailedImageSkipped == FailuresHandled(pdf) /\ FailuresHandled(png)

\* C13 witness: both exports finished a batch of three captioned polaroids on white
\* whose first image failed: two images and three captions each
C13_Witness ==
    /\ pdf.pc = "done" /\ png.pc = "done" /\ NPhotos = 3
    /\ ~photos[1].decodes /\ photos[2].decodes /\ photos[3].decodes
    /\ settings.style = "polaroid" /\ settings.showCaptions
    /\ settings.backgroundColor = "#ffffff"
    /\ Len(SelectSeq(pdf.ops, LAMBDA o : o.op = "addImage")) = 2
    /\ Len(SelectSeq(png.ops, LAMBDA o : o.op = "drawImage")) = 2
    /\ Len(SelectSeq(pdf.ops, LAMBDA o : o.op = "text")) = 3
    /\ Len(SelectSeq(png.ops, LAMBDA o : o.op = "fillText")) = 3

\* the step appends an output call (doc.save, or the download of a page) to e's calls
WritesOut(e, f) ==
    /\ Len(f.ops) = Len(e.ops) + 1
    /\ f.ops[Len(f.ops)].op \in {"save", "download"}

\* the photos an exporter has finished processing (image and caption done)
Processed(e) == IF e.pc = "await" THEN Len(e.placed) - 1 ELSE Len(e.placed)

Min(a, b) == IF a < b THEN a ELSE b

\* C14 as stated: in both exporters no artifact is written out (doc.save, the download
\* of any page PNG) before every photo of the batch has been processed.
C14_OutputAfterWholeBatch ==
    [][ /\ WritesOut(pdf, pdf') => Processed(pdf) = NPhotos
        /\ WritesOut(png, png') => Processed(png) = NPhotos ]_vars

\* C14 amended: doc.save happens only after every photo of the batch has been
\* processed; the PNG of page p is downloaded only after every photo of the pages up to
\* and including p has been processed, before the photos of later pages, and the last
\* download follows the whole batch.
C14_OutputAfterItsPhotos ==
    /\ [][ /\ WritesOut(pdf, pdf') => Processed(pdf) = NPhotos
           /\ WritesOut(png, png') =>
                 Processed(png) = Min((png.p + 1) * ItemsPerPage, NPhotos) ]_vars
    /\ [](png.pc = "done" => Processed(png) = NPhotos)

\* C14 witness: a finished PNG export of three photos on pages of two cells, so that
\* page 1 was downloaded before the third photo was processed; the PDF saved after all
C14_Witness ==
    /\ png.pc = "done" /\ pdf.pc = "done" /\ NPhotos = 3 /\ ItemsPerPage = 2
    /\ Len(PngDownloads) = 2 /\ Len(png.placed) = 3
    /\ png.ops[Len(png.ops)].op = "download"
    /\ pdf.ops[Len(pdf.ops)].op = "save"

\* the background fills and border strokes an exporter issued (page or cell level)
BackgroundRects(e) ==
    SelectSeq(e.ops, LAMBDA o : o.op \in {"rectF", "rectS", "fillRect", "strokeRect"})

\* C15: when settings.backgroundColor is the transparent sentinel, neither generatePDF
\* nor generatePNG issues a background fill or a border stroke, for the page or behind
\* any cell, in any style and for any number of photos.
C15_TransparentDrawsNoBackground ==
    settings.backgroundColor = TRANSPARENT =>
       BackgroundRects(pdf) = <<>> /\ BackgroundRects(png) = <<>>

\* C15 witness: both exports of six bordered (minimal) photos on the transparent
\* background have finished, with their six images drawn
C15_Witness ==
    /\ settings.backgroundColor = TRANSPARENT /\ settings.style = "minimal"
    /\ pdf.pc = "done" /\ png.pc = "done" /\ NPhotos = 6
    /\ Len(SelectSeq(pdf.ops, LAMBDA o : o.op = "addImage")) = 6
    /\ Len(SelectSeq(png.ops, LAMBDA o : o.op = "drawImage")) = 6

\* C16: generateCaption returns the empty string in every failure case (no API key,
\* the service call fails) and otherwise the trimmed caption text; it never throws.
C16_CaptionFailuresGiveEmpty ==
    captioning.pc = "returned" =>
       captioning.result =
          (IF captioning.apiKey = "" \/ captioning.outcome = "rejected" THEN <<>>
           ELSE Trim(captioning.text))

\* C17: when settings.paperSize is neither 'Custom' nor a key of PAPER_SIZES,
\* generatePDF and generatePNG fail before any drawing operation is issued and without
\* producing an artifact (no page, no canvas, no save, no download).
C17_UnknownPaperFailsEarly ==
    ~KnownPaper(settings) =>
       \A e \in {pdf, png} :
          /\ e.pc \in {"idle", "scheduled", "failed"}
          /\ e.ops = <<>> /\ e.placed = <<>> /\ e.pages = 0

\* C17 witness: with the unknown key "A3" both exporters were started and have failed
C17_Witness ==
    /\ settings.paperSize = "A3" /\ pdf.pc = "failed" /\ png.pc = "failed"
    /\ preview.rendered /\ ~preview.crashed

\* C18: when the grid leaves a cell width or height <= 0, generatePDF and generatePNG
\* fail before any drawing operation is issued; no cell is ever drawn with a
\* non-positive width or height.
C18_NonPositiveCellRejected ==
    \A e \in {pdf, png} :
       \A k \in DOMAIN e.placed :
          RLt(Zero, e.placed[k].cell.w) /\ RLt(Zero, e.placed[k].cell.h)

\* the cells laid out by the preview and by generatePDF, as page, row, col and rectangle
PreviewCells ==
    {[page |-> preview.cells[k].pageIdx, row |-> preview.cells[k].row,
      col |-> preview.cells[k].col,
      x |-> preview.cells[k].xMm, y |-> preview.cells[k].yMm,
      w |-> preview.cells[k].widthMm, h |-> preview.cells[k].heightMm] :
        k \in DOMAIN preview.cells}

PdfCells ==
    {[page |-> pdf.placed[k].page, row |-> pdf.placed[k].row, col |-> pdf.placed[k].col,
      x |-> pdf.placed[k].cell.x, y |-> pdf.placed[k].cell.y,
      w |-> pdf.placed[k].cell.w, h |-> pdf.placed[k].cell.h] : k \in DOMAIN pdf.placed}

\* the open intervals covered on one axis by two extents (start, length) intersect
Meets(x1, w1, x2, w2) ==
    /\ RLt(RMin(x1, RAdd(x1, w1)), RMax(x2, RAdd(x2, w2)))
    /\ RLt(RMin(x2, RAdd(x2, w2)), RMax(x1, RAdd(x1, w1)))

Overlap(a, b) == Meets(a.x, a.w, b.x, b.w) /\ Meets(a.y, a.h, b.y, b.h)

\* the sums, the last column and row, the gaps between neighbours, no overlap
GridAddsUp(cells, pageW, pageH) ==
    /\ \A c \in cells :
          /\ RAdd(RAdd(RMul(Num(settings.cols), c.w),
                       RMul(Num(settings.cols - 1), settings.gapMm)),
                  RMul(Num(2), settings.paddingHorizontalMm)) = pageW
          /\ RAdd(RAdd(RMul(Num(settings.rows), c.h),
                       RMul(Num(settings.rows - 1), settings.gapMm)),
                  RMul(Num(2), settings.paddingVerticalMm)) = pageH
          /\ c.col = settings.cols - 1 =>
                RAdd(c.x, c.w) = RSub(pageW, settings.paddingHorizontalMm)
          /\ c.row = settings.rows - 1 =>
                RAdd(c.y, c.h) = RSub(pageH, settings.paddingVerticalMm)
    /\ \A a, b \in cells :
          a.page = b.page =>
             /\ (a.row = b.row /\ b.col = a.col + 1) =>
                   RSub(b.x, RAdd(a.x, a.w)) = settings.gapMm
             /\ (a.col = b.col /\ b.row = a.row + 1) =>
                   RSub(b.y, RAdd(a.y, a.h)) = settings.gapMm
             /\ (a.row # b.row \/ a.col # b.col) => ~Overlap(a, b)

\* C19: for every grid with rows, cols >= 1 and non-negative padding and gap,
\* cols*cellW + (cols-1)*gap + 2*paddingH is the page width and the analogous sum the
\* page height; the last column ends at pageW - paddingH; neighbouring cells are
\* exactly gap apart; no two cells of a page overlap (preview and generatePDF).
C19_GridAddsUp ==
    /\ GridAddsUp(PreviewCells, RDiv(preview.widthPx, Num(SCREEN_SCALE)),
                  RDiv(preview.heightPx, Num(SCREEN_SCALE)))
    /\ GridAddsUp(PdfCells, pdf.doc.finalDocW, pdf.doc.finalDocH)

\* C20: under every interleaving of the user's events, a ratio change while an import
\* is still decoding included, a decoded photo enters the collection with
\* crop = calculateCrop(originalWidth, originalHeight, current target ratio), and a
\* ratio change leaves every decoded photo with the crop of the new ratio; the crop
\* of a photo otherwise changes only by a save from the crop modal.
C20_NoStaleCrop ==
    [][ /\ handleFileUploadLoaded =>
              Imported.crop = AutoCrop(Imported, settings'.aspectRatio)
        /\ settings'.aspectRatio # settings.aspectRatio =>
              \A i \in DOMAIN photos' :
                 photos'[i].decodes =>
                    photos'[i].crop = AutoCrop(photos'[i], settings'.aspectRatio)
        /\ ~onSave =>
              \A i \in DOMAIN photos : photos'[i].crop = photos[i].crop
                                         \/ settings'.aspectRatio # settings.aspectRatio
      ]_vars

----------------------------------------------------------------------------
(* Properties of the image box, the modal's edits and the collection *)

\* the settings the sidebar's controls can produce for a table paper
SidebarSettings(s) ==
    /\ s.paperSize \in DOMAIN PAPER_SIZES
    /\ s.rows >= 1 /\ s.cols >= 1
    /\ RLe(Zero, s.paddingHorizontalMm) /\ RLe(s.paddingHorizontalMm, Num(60))
    /\ RLe(Zero, s.paddingVerticalMm) /\ RLe(s.paddingVerticalMm, Num(60))
    /\ RLe(Zero, s.gapMm) /\ RLe(s.gapMm, Num(30))
    /\ RLe(Num(10), s.captionSpaceMm) /\ RLe(s.captionSpaceMm, Num(60))

\* rectangle r lies inside rectangle c
Inside(r, c) ==
    /\ RLe(c.x, r.x) /\ RLe(RAdd(r.x, r.w), RAdd(c.x, c.w))
    /\ RLe(c.y, r.y) /\ RLe(RAdd(r.y, r.h), RAdd(c.y, c.h))

\* C21: for every Settings the sidebar can produce, the final image rectangle of the
\* exporters has a positive width and height and lies inside its own cell.
C21_ImageInsideCell ==
    SidebarSettings(settings) =>
       \A e \in {pdf, png} :
          \A k \in DOMAIN e.placed :
             /\ RLt(Zero, e.placed[k].img.w) /\ RLt(Zero, e.placed[k].img.h)
             /\ Inside(e.placed[k].img, e.placed[k].cell)

\* a mouse move handled by the resize branch of handleMouseMove
ResizeMoved ==
    /\ modal.isResizing /\ ~modal.isDragging
    /\ \E e \in MousePoints : handleMouseMove(e)

\* imgAspect / targetRatio of the photo in the modal
ResizeRatio ==
    RDiv(Rat(photoToCrop.originalWidth, photoToCrop.originalHeight),
         ASPECT_RATIOS[settings.aspectRatio])

\* C22: every crop produced by a resize gesture has height = width * (imgAspect /
\* targetRatio): unclamped, clamped at the x bound, clamped at the y bound, and when
\* the 0.1 minimum-width floor applies.
C22_ResizeKeepsRatio ==
    [][ ResizeMoved => modal'.crop.height = RMul(modal'.crop.width, ResizeRatio) ]_vars

\* C28: a resize gesture never changes the crop's position: after every resize move
\* x and y are what they were before the move and at the start of the gesture.
C28_ResizeKeepsPosition ==
    [][ ResizeMoved =>
           /\ modal'.crop.x = modal.crop.x /\ modal'.crop.y = modal.crop.y
           /\ modal'.crop.x = modal.startCrop.x /\ modal'.crop.y = modal.startCrop.y
      ]_vars

\* C28 witness: a resize in progress has changed an off-origin crop's width
C28_Witness ==
    /\ modal.open /\ modal.isResizing /\ ~modal.isDragging
    /\ modal.crop.width # modal.startCrop.width
    /\ RLt(Zero, modal.crop.x)
    /\ modal.crop.x = modal.startCrop.x /\ modal.crop.y = modal.startCrop.y

\* the caption band: settings.captionSpaceMm, or 25 mm when that is unset
ClaimedBand(s) == IF s.captionSpaceMm = Zero THEN Num(25) ELSE s.captionSpaceMm

\* the cell shrunk by l, r, t and b on its left, right, top and bottom
Shrunk(cell, l, r, t, b) ==
    [imgX |-> RAdd(cell.x, l), imgY |-> RAdd(cell.y, t),
     imgW |-> RSub(cell.w, RAdd(l, r)), imgH |-> RSub(cell.h, RAdd(t, b))]

Box(area) == [imgX |-> area.imgX, imgY |-> area.imgY, imgW |-> area.imgW, imgH |-> area.imgH]

BoxTimes(b, k) ==
    [imgX |-> RMul(b.imgX, k), imgY |-> RMul(b.imgY, k),
     imgW |-> RMul(b.imgW, k), imgH |-> RMul(b.imgH, k)]

\* the image box of every placed photo is the cell shrunk as its style says, in
\* generatePDF (mm) and in generatePNG (pixels, SCALE per mm), where polaroid shrinks
\* the bottom by bottomOf(margin, band); generatePNG's box is generatePDF's times SCALE
BoxesByStyle(bottomOf(_, _)) ==
    /\ \A e \in {[x |-> pdf, k |-> One], [x |-> png, k |-> Num(SCALE)]} :
          \A i \in DOMAIN e.x.placed :
             \E cell \in {e.x.placed[i].cell} :
             \E margin \in {RMul(cell.w, Rat(5, 100))} :
             \E three \in {RMul(Num(3), e.k)} :
                Box(e.x.placed[i].area) =
                   IF settings.style = "polaroid"
                   THEN Shrunk(cell, margin, margin, margin,
                               bottomOf(margin, RMul(ClaimedBand(settings), e.k)))
                   ELSE IF settings.style = "minimal"
                   THEN Shrunk(cell, three, three, three, three)
                   ELSE Shrunk(cell, Zero, Zero, Zero, Zero)
    /\ \A i \in DOMAIN pdf.placed \cap DOMAIN png.placed :
          Box(png.placed[i].area) = BoxTimes(Box(pdf.placed[i].area), Num(SCALE))

MarginAndBand(margin, band) == RAdd(margin, band)
BandOnly(margin, band) == band

\* C23 as stated: polaroid shrinks the cell by a margin of 5% of the cell width on
\* left, right and top and by margin + caption band on the bottom (band =
\* captionSpaceMm, or 25 mm when unset); minimal insets 3 mm on all four sides;
\* borderless uses the full cell; generatePNG's box is generatePDF's box times 8.
C23_ImageBoxByStyle == BoxesByStyle(MarginAndBand)

\* C23 amended: as stated, except that polaroid shrinks the bottom by the caption band
\* alone, so that the box's height is the cell's height less margin + band.
C23_ImageBoxBandAtBottom == BoxesByStyle(BandOnly)

\* C23 witness: both exporters have boxed two polaroid cells with a caption space of
\* 60 mm
C23_Witness ==
    /\ settings.style = "polaroid" /\ settings.captionSpaceMm = Num(60)
    /\ pdf.pc = "done" /\ png.pc = "done"
    /\ Len(pdf.placed) = 2 /\ Len(png.placed) = 2
    /\ pdf.placed[1].area.imgH =
          RSub(pdf.placed[1].cell.h,
               RAdd(RMul(pdf.placed[1].cell.w, Rat(5, 100)), ClaimedBand(settings)))

\* the image calls an exporter has issued, in the order of issue
ImageOps(e) == SelectSeq(e.ops, LAMBDA o : o.op \in {"addImage", "drawImage"})

\* an exporter works on the photos one at a time, in index order
OneAtATime(e) ==
    /\ \A k \in DOMAIN e.placed : e.placed[k].i = k - 1
    /\ e.pc = "await" => Len(e.placed) = e.i + 1
    /\ e.pc \in {"loop", "items"} => Len(e.placed) = e.i
    /\ \A k \in 1..Processed(e) :
          Len(PhotoOps(e, {"addImage", "drawImage"}, photos[k].id))
             = (IF photos[k].decodes THEN 1 ELSE 0)
    /\ \A k \in (Processed(e) + 1)..NPhotos :
          PhotoOps(e, {"addImage", "drawImage", "text", "fillText"}, photos[k].id) = <<>>
    /\ \A a, b \in DOMAIN ImageOps(e) :
          a < b => ImageOps(e)[a].photo < ImageOps(e)[b].photo
    /\ Cardinality({k \in DOMAIN e.placed :
                      photos[k].decodes /\ PhotoOps(e, {"addImage", "drawImage"},
                                                    photos[k].id) = <<>>}) <= 1

\* C24: within one run of generatePDF or generatePNG the photos are processed one at a
\* time in index order: photo i is drawn, or skipped after a failed decode, before the
\* decode of photo i + 1 starts, and at most one photo is in work at any moment.
C24_OnePhotoAtATime == OneAtATime(pdf) /\ OneAtATime(png)

\* C24 witness: an exporter awaits the decode of the third photo after the first
\* was drawn and the second, whose decode failed, was skipped
C24_Witness ==
    /\ NPhotos = 3 /\ photos[1].decodes /\ ~photos[2].decodes /\ photos[3].decodes
    /\ \E e \in {pdf, png} :
          /\ e.pc = "await" /\ e.i = 2 /\ Len(e.placed) = 3
          /\ Len(ImageOps(e)) = 1 /\ ImageOps(e)[1].photo = photos[1].id

\* C26: edits made in the crop modal (drag, resize, adjustment sliders) reach the
\* photo only through save: while the modal is open no other step changes a stored
\* photo, closing or cancelling leaves the collection as it is, and save replaces
\* exactly the crop and the adjustments of the modal's photo by the modal's values.
C26_EditsCommittedOnlyBySave ==
    [][ /\ (modal.open /\ ~onSave) => \A i \in DOMAIN photos : photos'[i] = photos[i]
        /\ onClose => photos' = photos
        /\ onSave =>
              \E j \in DOMAIN photos :
                 /\ photos[j].id = modal.photoId
                 /\ photos' = [photos EXCEPT ![j].crop = modal.crop,
                                             ![j].adjustments = modal.adjustments]
      ]_vars

\* C26 witness: the modal holds a dragged crop and a changed adjustment that the
\* stored photo does not have
C26_Witness ==
    /\ modal.open /\ modal.gestures = 2
    /\ modal.crop # photoToCrop.crop
    /\ modal.adjustments # photoToCrop.adjustments
    /\ photoToCrop.adjustments = DEFAULT_ADJUSTMENTS

\* a call of updateSettings from the sidebar, or through loadPreset
SettingsStep ==
    \/ \E newSettings \in SettingsChanges : updateSettings(newSettings)
    \/ \E preset \in Presets : loadPreset(preset)

\* C25: a call of updateSettings that does not change the aspect ratio (other fields,
\* the same aspectRatio again, a preset with the same ratio) leaves every photo's
\* crop, adjustments and caption unchanged.
C25_LayoutChangeKeepsPhotos ==
    [][ (SettingsStep /\ settings'.aspectRatio = settings.aspectRatio) =>
           photos' = photos ]_vars

\* C25 witness: the rows were changed under the initial ratio and the first photo
\* still has its manual crop, its adjustments and its caption
C25_Witness ==
    /\ settings.rows = 2 /\ settings.aspectRatio = INITIAL_SETTINGS.aspectRatio
    /\ Len(photos) = 3
    /\ photos[1].crop = EditedCrop /\ photos[1].adjustments = EditedAdjustments
    /\ photos[1].caption = "lake"

\* the photos other than id are kept as they are, in their order
OthersKept(id) ==
    SelectSeq(photos', LAMBDA p : p.id # id) = SelectSeq(photos, LAMBDA p : p.id # id)

NoSuchPhoto(id) == \A i \in DOMAIN photos : photos[i].id # id

\* C27: updateCaption(id, text), handleSavePhoto(id, ...) and removePhoto(id) affect
\* only the photo with that id: the others keep their crop, adjustments, caption and
\* order; removePhoto removes exactly that photo; updateCaption and handleSavePhoto
\* change only the caption, or the crop and adjustments, of that photo; each is a
\* no-op on the collection when no photo has that id.
C27_OnlyThatPhoto ==
    [][ \A id \in PhotoIds :
          /\ removePhoto(id) =>
                /\ OthersKept(id)
                /\ \A i \in DOMAIN photos' : photos'[i].id # id
          /\ (\E text \in CaptionTexts : updateCaption(id, text)) =>
                /\ OthersKept(id) /\ Len(photos') = Len(photos)
                /\ \A i \in DOMAIN photos :
                      photos[i].id = id =>
                         \E text \in CaptionTexts :
                            photos'[i] = [photos[i] EXCEPT !.caption = text]
          /\ handleSavePhoto(id, EditedCrop, EditedAdjustments) =>
                /\ OthersKept(id) /\ Len(photos') = Len(photos)
                /\ \A i \in DOMAIN photos :
                      photos[i].id = id =>
                         photos'[i] = [photos[i] EXCEPT !.crop = EditedCrop,
                                                        !.adjustments = EditedAdjustments]
          /\ (/\ NoSuchPhoto(id)
              /\ \/ removePhoto(id)
                 \/ \E text \in CaptionTexts : updateCaption(id, text)
                 \/ handleSavePhoto(id, EditedCrop, EditedAdjustments)) =>
                photos' = photos
      ]_vars

\* C27 witness: the second photo was removed, the third was captioned and saved
\* afterwards, and the first is as it was
C27_Witness ==
    /\ Len(photos) = 2 /\ photos[1].id = 1 /\ photos[2].id = 3
    /\ photos[1].caption = "lake" /\ photos[1].crop = EditedCrop
    /\ photos[2].caption = "beach" /\ photos[2].crop = EditedCrop
    /\ photos[2].adjustments = EditedAdjustments

\* the centred cover crop of an image of ratio imgRatio for targetRatio
CoverCrop(imgRatio, targetRatio) ==
    IF RLt(targetRatio, imgRatio)
    THEN [x |-> RDiv(RSub(One, RDiv(targetRatio, imgRatio)), Num(2)), y |-> Zero,
          width |-> RDiv(targetRatio, imgRatio), height |-> One]
    ELSE [x |-> Zero, y |-> RDiv(RSub(One, RDiv(imgRatio, targetRatio)), Num(2)),
          width |-> One, height |-> RDiv(imgRatio, targetRatio)]

ImportedRatio == Rat(importing.imgSize[1], importing.imgSize[2])

\* the scenario of the specification: 4000 x 3000 and ratio 1 give 0.75 x 1 at (0.125, 0)
Scenario4000x3000 ==
    (importing.imgSize = <<4000, 3000>> /\ importing.targetRatio = One) =>
       Imported.crop = [x |-> Rat(1, 8), y |-> Zero, width |-> Rat(3, 4), height |-> One]

C30_ExportingEnds ==
    /\ [][ (handleExport \/ handleExportPNG) => isExporting' ]_vars
    /\ [](isExporting <=> (Exporting(pdf) \/ Exporting(png)))
    /\ (isExporting ~> ~isExporting)

\* C30 witness: an export of three photos has completed and the button is enabled again
C30_Witness ==
    /\ ~isExporting /\ pdf.pc = "done" /\ NPhotos = 3 /\ Len(pdf.placed) = 3
    /\ pdf.ops[Len(pdf.ops)].op = "save"

====
